---- MODULE Spec2Model ----
(***************************************************************************)
(* A model of toumapet.c: the paged ROM-frame scheduler of run_emu (the    *)
(* traps at 0x60DE, 0x6052 and 0x7000), the BIOS services of the trap at   *)
(* 0x6000 with the RLE image decoder, the CPU store path with its          *)
(* memory-mapped registers, the arithmetic and the branches, the           *)
(* bit-banged serial flash of flash_emu, the tick loop of run_game with    *)
(* the window's events, and main's handling of the ROM and save files.     *)
(*                                                                         *)
(* Memory arrays are kept sparse: mem holds the bytes of s->mem written    *)
(* since main's memset (unwritten bytes read 0), rom holds the bytes of    *)
(* sys->rom written since check_rom (unwritten bytes read the unmasked     *)
(* image).  The firmware is an input: which instruction run_emu finds at   *)
(* PC is chosen by the firmware actions, and PC is tracked only across     *)
(* control transfers, since run_emu treats every PC below 0x6000 alike.    *)
(***************************************************************************)
EXTENDS Integers, Sequences, FiniteSets, TLC

VARIABLES
    rom_size,   \* sys->rom_size
    rom_key,    \* sys->rom_key
    rom,        \* sys->rom, the bytes written since check_rom
    flash,      \* sys->flash
    depth,      \* run_emu's depth (sys->frame_depth at entry and exit)
    frames,     \* sys->frame_stack
    mem,        \* s->mem, the bytes written since the memset in main
    pc,         \* run_emu's pc (s->pc at entry and exit)
    sp,         \* s->sp
    regs,       \* s->a, s->x, s->y, s->flags and run_emu's zflag, nflag, vflag, cflag
    running,    \* TRUE inside run_emu's loop, FALSE after "goto end"
    err,        \* the ERR_EXIT message, "" while the process is alive
    ticks,      \* iterations of run_emu's loop so far
    ncmds,      \* history: flash commands the firmware has started
    wstore,     \* history: a CPU store hit 0x300..0x7FF since the last window copy
    keys,       \* sys->keys
    screen,     \* sys->screen, the bytes written since the last memset
    init_done,  \* sys->init_done
    gpos,       \* where main and run_game are: "main", "load", "reset",
                \* "boot", "loop", "emu", "done", "exit"; resextract's main
                \* is at "extract" and "extracting"
    diag,       \* the last message run_emu printed to stderr without exiting
    rom_mask,   \* what the bytes of sys->rom not held in rom are XORed with
                \* (the file's key before check_rom, 0 once it is unmasked)
    save_file,  \* the file named by --save
    input_timer, \* run_emu's input_timer
    polls,      \* history: non-store accesses to 0x00 in this run_emu call
    pumps,      \* history: calls of game_event since this run_emu call began
    updates     \* history: calls of sys_update so far

vars == <<rom_size, rom_key, rom, flash, depth, frames, mem, pc, sp, regs,
          running, err, ticks, ncmds, wstore, keys, screen, init_done, gpos,
          diag, rom_mask, save_file, input_timer, polls, pumps, updates>>

-----------------------------------------------------------------------------
(* Bounds of the exploration *)

\* loop iterations of run_emu explored in one run of the paging specification
MaxTicks == 10

\* flash commands the firmware starts in one run of the flash specification
MaxCmds == 2

\* a page program is interrupted only before this many of its data bytes
MaxGlitchBytes == 1

-----------------------------------------------------------------------------
(* Program constants *)

FRAME_STACK_MAX == 16
SYS_RET == 28672            \* 0x7000
SYS_RET1 == 28673           \* 0x7001
ROM_CALL == 24798           \* 0x60de
ROM_TAIL_CALL == 24658      \* 0x6052
TRAP_BASE == 24576          \* 0x6000
FRAME_BASE == 768           \* 0x300
FRAME_SIZE_LIMIT == 1280    \* 0x500
ARG_ADDR == 128             \* 0x80
ARG_SIZE == 131             \* 0x83
STACK_PAGE == 256           \* 0x100
RTS_OPCODE == 96            \* 0x60
SAVE_SIZE == 65536          \* 0x10000
BOOT_SP == 127              \* 0x7f

Byte == 0 .. 255

\* 4 << 20 (model 550) and 8 << 20 (model 560)
RomSizes == {4194304, 8388608}

save_offs == rom_size - SAVE_SIZE

-----------------------------------------------------------------------------
(* Bit arithmetic on naturals *)

RECURSIVE Xor(_, _)
Xor(a, b) ==
    IF a = 0 THEN b
    ELSE IF b = 0 THEN a
    ELSE (((a % 2) + (b % 2)) % 2) + 2 * Xor(a \div 2, b \div 2)

BitAt(v, n) == (v \div (2 ^ n)) % 2

\* (int8_t)x
Signed8(x) == IF x >= 128 THEN x - 256 ELSE x

\* a | b
RECURSIVE BitOr(_, _)
BitOr(a, b) ==
    IF a = 0 THEN b ELSE IF b = 0 THEN a
    ELSE (IF a % 2 = 1 \/ b % 2 = 1 THEN 1 ELSE 0) + 2 * BitOr(a \div 2, b \div 2)

\* a & b
RECURSIVE BitAnd(_, _)
BitAnd(a, b) ==
    IF a = 0 \/ b = 0 THEN 0
    ELSE (IF a % 2 = 1 /\ b % 2 = 1 THEN 1 ELSE 0) + 2 * BitAnd(a \div 2, b \div 2)

-----------------------------------------------------------------------------
(* The two byte arrays *)

\* The resources of the firmware image.  An image is w, 0, h, 0x80 and one
\* chunk per row: the chunk's length (16 bits), the RLE codes, two more bytes.
\* Image 0 is one pixel, image 1 has literals and a run, image 2 is wider
\* and image 3 taller than the screen, image 4 has a run of zero pixels and
\* image 5 a row that ends early.
TallRows(h) ==
    [k \in 1 .. (5 * h) |->
        CASE (k - 1) % 5 = 0 -> 5
          [] (k - 1) % 5 = 2 -> ((k - 1) \div 5) + 1
          [] OTHER -> 0]

ResImages ==
    << <<1, 0, 1, 128,  5, 0, 170, 0, 0>>,
       <<3, 0, 2, 128,  7, 0, 1, 255, 3, 0, 0,  8, 0, 0, 4, 2, 5, 0, 0>>,
       <<130, 0, 1, 128,  7, 0, 0, 9, 130, 0, 0>>,
       <<1, 0, 130, 128>> \o TallRows(130),
       <<2, 0, 1, 128,  7, 0, 0, 7, 0, 0, 0>>,
       <<2, 0, 1, 128,  5, 0, 6, 0, 0>> >>

\* where the resource table starts: the 24-bit value at ROM offset 0
RES_OFFS == 4096

\* The resource bytes: a table of 24-bit offsets, one per image, then the
\* images; off is the ROM offset of image k.
RECURSIVE ResLayout(_, _, _, _, _)
ResLayout(imgs, k, off, table, data) ==
    IF k > Len(imgs) THEN table \o data
    ELSE ResLayout(imgs, k + 1, off + Len(imgs[k]),
                   table \o <<off % 256, (off \div 256) % 256, off \div 65536>>,
                   data \o imgs[k])

ResTableLen(imgs) == 3 * Len(imgs)

ResBytes == ResLayout(ResImages, 1, RES_OFFS + ResTableLen(ResImages), <<>>, <<>>)

\* The header bytes are those main and run_game read: the resource table
\* offset at 0, the boot frame at 3, the game frame at 0x1b, the magic at 0x23.
RomHeader(i) ==
    CASE i = 0 -> RES_OFFS % 256  [] i = 1 -> (RES_OFFS \div 256) % 256
      [] i = 2 -> RES_OFFS \div 65536
      [] i = 3 -> 0  [] i = 4 -> 2   [] i = 5 -> 4   [] i = 6 -> 0
      [] i = 27 -> 0 [] i = 28 -> 4  [] i = 29 -> 8  [] i = 30 -> 0
      [] i = 35 -> 116 [] i = 36 -> 111 [] i = 37 -> 110 [] i = 38 -> 121
      [] OTHER -> (i * 5 + (i \div 256) + 3) % 256

RomImageOf(res, i) ==
    IF i >= RES_OFFS /\ i < RES_OFFS + Len(res) THEN res[i - RES_OFFS + 1]
    ELSE RomHeader(i)

\* The firmware image (unmasked)
RomImage(i) == RomImageOf(ResBytes, i)

\* byte i of a ROM whose bytes not held in r are the image XORed with mask
RomByte(r, mask, i) == IF i \in DOMAIN r THEN r[i] ELSE Xor(RomImage(i), mask)

\* sys->rom[i]
RomAt(r, i) == RomByte(r, rom_mask, i)

\* s->mem[a]
Rd(m, a) == IF a \in DOMAIN m THEN m[a] ELSE 0

\* s->mem[a] = v (v is truncated to a byte by the uint8_t store)
Wr(m, a, v) == (a :> (v % 256)) @@ m

READ16(m, a) == Rd(m, a) + 256 * Rd(m, a + 1)
READ24(m, a) == Rd(m, a) + 256 * Rd(m, a + 1) + 65536 * Rd(m, a + 2)
WRITE16(m, a, v) == Wr(Wr(m, a, v), a + 1, v \div 256)
WRITE24(m, a, v) == Wr(Wr(Wr(m, a, v), a + 1, v \div 256), a + 2, v \div 65536)

ROM_READ16(r, a) == RomAt(r, a) + 256 * RomAt(r, a + 1)

-----------------------------------------------------------------------------
(* The registers.  nflag and vflag are int8_t in the code and are kept here
   as the byte with the same bits (negative iff >= 128); cflag is uint16_t
   (carry iff >= 0x100) and zflag uint8_t (zero iff 0). *)

MASK_D == 8

\* UNPACK_FLAGS, t = s->flags
UNPACK_FLAGS(r, t) ==
    [r EXCEPT !.zflag = 2 * (1 - BitAt(t, 1)),
              !.nflag = t % 256,
              !.vflag = (2 * t) % 256,
              !.cflag = 256 * (t % 2)]

\* PACK_FLAGS: the value of t
PACK_FLAGS(r) ==
    LET t0 == r.flags - 128 * BitAt(r.flags, 7) - 64 * BitAt(r.flags, 6)
                      - 2 * BitAt(r.flags, 1) - BitAt(r.flags, 0)
        t1 == BitOr(t0, r.cflag \div 256)
        t2 == BitOr(t1, IF r.zflag = 0 THEN 2 ELSE 0)
        t3 == BitOr(t2, 64 * BitAt(r.vflag, 7))
    IN  BitOr(t3, 128 * BitAt(r.nflag, 7)) % 256

\* no --save option
NoSave ==
    [named |-> FALSE, exists |-> FALSE, len |-> 0, mem |-> <<>>,
     save |-> <<>>, screen |-> <<>>]

\* the ROM is unmasked, no save file is named, and nothing has polled the
\* window or presented the screen
HostIdle ==
    /\ rom_mask = 0
    /\ save_file = NoSave
    /\ input_timer = 0
    /\ polls = 0
    /\ pumps = 0
    /\ updates = 0

\* memset(&cpu, 0, sizeof(cpu)) in main, then UNPACK_FLAGS at run_emu's entry
RegsInit ==
    UNPACK_FLAGS([a |-> 0, x |-> 0, y |-> 0, flags |-> 0,
                  zflag |-> 0, nflag |-> 0, vflag |-> 0, cflag |-> 0], 0)

\* end: PACK_FLAGS; s->flags = t; s->pc = pc; sys->frame_depth = depth
EndRun(s) ==
    [s EXCEPT !.running = FALSE, !.regs.flags = PACK_FLAGS(s.regs)]

-----------------------------------------------------------------------------
(* The CPU and paging state as one record, so that run_emu's handlers are
   functions from state to state *)

CpuState ==
    [mem |-> mem, pc |-> pc, sp |-> sp, regs |-> regs, depth |-> depth,
     frames |-> frames, running |-> running, err |-> err, wstore |-> wstore,
     keys |-> keys, screen |-> screen, diag |-> diag,
     input_timer |-> input_timer, polls |-> polls, pumps |-> pumps,
     updates |-> updates]

SetCpu(s) ==
    /\ mem' = s.mem
    /\ pc' = s.pc
    /\ sp' = s.sp
    /\ regs' = s.regs
    /\ depth' = s.depth
    /\ frames' = s.frames
    /\ running' = s.running
    /\ err' = s.err
    /\ wstore' = s.wstore
    /\ keys' = s.keys
    /\ screen' = s.screen
    /\ diag' = s.diag
    /\ input_timer' = s.input_timer
    /\ polls' = s.polls
    /\ pumps' = s.pumps
    /\ updates' = s.updates

\* ERR_EXIT: the message is printed and the process exits with status 1
Fatal(s, msg) == [s EXCEPT !.err = msg]

-----------------------------------------------------------------------------
(* run_emu: the paging traps *)

\* faulty variant: the copy reads the ROM one byte too far
WindowCopy_shifted(m, addr, frame_size) ==
    [a \in (DOMAIN m) \cup (FRAME_BASE .. (FRAME_BASE + frame_size - 1)) |->
        IF a >= FRAME_BASE /\ a < FRAME_BASE + frame_size
        THEN RomAt(rom, addr + 1 + (a - FRAME_BASE))
        ELSE m[a]]

\* memcpy(s->mem + 0x300, sys->rom + addr, frame_size)
WindowCopy(m, addr, frame_size) ==
    [a \in (DOMAIN m) \cup (FRAME_BASE .. (FRAME_BASE + frame_size - 1)) |->
        IF a >= FRAME_BASE /\ a < FRAME_BASE + frame_size
        THEN RomAt(rom, addr + (a - FRAME_BASE))
        ELSE m[a]]

\* frame_size >= 0x500
FrameTooBig(frame_size) == frame_size >= FRAME_SIZE_LIMIT

\* faulty variant: only the frame's first byte has to lie in the ROM
FramePastRom_start(addr, frame_size) == rom_size < addr

\* faulty variant: the frame's last word is left out of the comparison
FramePastRom_lastword(addr, frame_size) ==
    rom_size < addr + frame_size - 2

\* sys->rom_size < addr + frame_size
FramePastRom(addr, frame_size) == rom_size < addr + frame_size

\* depth >= FRAME_STACK_MAX
StackFull(d) == d >= FRAME_STACK_MAX

\* faulty variant: a tail call stores a return address too
PushesReturn_always(tail_call) == TRUE

\* if (!tail_call) { ... } : only a normal call stores a return address
PushesReturn(tail_call) == ~tail_call

\* faulty variant: the low byte's address is not wrapped into the stack page
PushFakeReturn_nowrap(m, o) ==
    Wr(Wr(m, STACK_PAGE + o, (SYS_RET - 1) \div 256),
       STACK_PAGE + (o - 1), SYS_RET - 1)

\* pc = SYS_RET - 1; s->mem[0x100 + o] = pc >> 8;
\* s->mem[0x100 + ((o - 1) & 0xff)] = pc;
PushFakeReturn(m, o) ==
    Wr(Wr(m, STACK_PAGE + o, (SYS_RET - 1) \div 256),
       STACK_PAGE + ((o - 1) % 256), SYS_RET - 1)

\* case 0x60: RTS
ExecRTS(s) ==
    LET o == s.sp
        lo == Rd(s.mem, STACK_PAGE + ((o + 1) % 256))
        hi == Rd(s.mem, STACK_PAGE + ((o + 2) % 256))
    IN  [s EXCEPT !.sp = (o + 2) % 256,
                  !.pc = (lo + 256 * hi + 1) % 65536]

\* pc == 0x60de || pc == 0x6052
RomCallTrap(s) ==
    LET tail_call == s.pc = ROM_TAIL_CALL
        addr == READ24(s.mem, ARG_ADDR)
        frame_size == READ16(s.mem, ARG_SIZE) * 2
        d == IF tail_call THEN s.depth - 1 ELSE s.depth
        o == s.sp
        push == PushesReturn(tail_call)
        m1 == IF push THEN PushFakeReturn(s.mem, o) ELSE s.mem
    IN  IF FrameTooBig(frame_size) THEN Fatal(s, "too big rom call")
        ELSE IF FramePastRom(addr, frame_size) THEN Fatal(s, "bad ROM call")
        ELSE IF StackFull(s.depth) THEN Fatal(s, "call stack overflow")
        ELSE IF tail_call /\ s.depth = 0 THEN Fatal(s, "call stack underflow")
        ELSE [s EXCEPT
                !.frames = [@ EXCEPT ![d] = [addr |-> addr, size |-> frame_size]],
                !.depth = d + 1,
                !.sp = IF push THEN (o - 2) % 256 ELSE @,
                !.mem = WindowCopy(m1, addr, frame_size),
                !.pc = FRAME_BASE,
                !.wstore = FALSE]

\* faulty variant: a return leaves the window as the callee left it
RestoreWindow_none(m, fr) == m

\* addr = frames[depth - 1].addr; frame_size = frames[depth - 1].size;
\* memcpy(s->mem + 0x300, sys->rom + addr, frame_size);
RestoreWindow(m, fr) == WindowCopy(m, fr.addr, fr.size)

\* pc == SYS_RET; on a non-empty stack the handler stores an RTS at 0x7001
\* and the same loop iteration executes it
SysRetTrap(s) ==
    IF s.depth = 0 THEN Fatal(s, "call stack underflow")
    ELSE IF s.depth - 1 = 0 THEN EndRun([s EXCEPT !.depth = 0])
    ELSE LET d == s.depth - 1
             m1 == RestoreWindow(s.mem, s.frames[d - 1])
             m2 == Wr(m1, SYS_RET1, RTS_OPCODE)
         IN  ExecRTS([s EXCEPT !.depth = d, !.mem = m2, !.wstore = FALSE])

-----------------------------------------------------------------------------
(* The BIOS services of the trap at 0x6000: the resource table, the RLE
   images drawn into sys->screen, the clear and the intersection test.  The
   screen is kept sparse like the memory: a byte not written since the last
   memset reads 0, and a store through a pointer outside the array is
   recorded under the index the pointer has. *)

SCREEN_W == 128
BIOS_TRAP == 24576
ROM_READ_TRAP == 24579

\* sys.screen_h, which main sets from the ROM size
screen_h == IF rom_size = 4194304 THEN 128 ELSE 160

ROM_READ24(r, a) == RomAt(r, a) + 256 * RomAt(r, a + 1) + 65536 * RomAt(r, a + 2)

\* get_image: the offset of resource id, or the message of its ERR_EXIT
get_image(id) ==
    LET Entry(res_offs) ==
            LET Image(offs) ==
                    IF rom_size < res_offs + 3
                    THEN [err |-> "bad resource index", pos |-> 0]
                    ELSE IF rom_size < offs + 4
                    THEN [err |-> "bad resource offset", pos |-> 0]
                    ELSE [err |-> "", pos |-> offs]
            IN  Image(ROM_READ24(rom, res_offs))
    IN  Entry(ROM_READ24(rom, 0) + id * 3)

\* "if (blend != 0xff) x = (X(0xe3) | X(0x1c)) >> 1", X(m) being
\* (((x & m) + (blend & m)) & m << 1)
Blended(a, blend) ==
    LET X(m) == BitAnd(BitAnd(a, m) + BitAnd(blend, m), 2 * m)
    IN  IF blend # 255 THEN BitOr(X(227), X(28)) \div 2 ELSE a

\* faulty variant: a run emits one pixel more than its count
RunCount_plusOne(s) == RomAt(rom, s + 2) + 1

\* "a = *s++; n = *s++;" after a code byte 0 at s: the count of the run
RunCount(s) == RomAt(rom, s + 2)

\* One iteration of the inner loop of draw_image, a pixel: st holds screen,
\* err and the locals s, len, a, n, skip, d2.  After an ERR_EXIT nothing
\* more happens.
DrawPixel(st, x_add, blend, alpha) ==
    LET fetch == st.n - 1 = 0
        skip == st.skip - 1
        \* the pixel a of a run of n, the code read up to s with len left
        Emit(a, n, s, len) ==
            [screen |-> IF skip < 0 /\ a # alpha
                        THEN (st.d2 :> Blended(a, blend)) @@ st.screen
                        ELSE st.screen,
             err |-> "", s |-> s, len |-> len, a |-> a, n |-> n,
             skip |-> skip, d2 |-> st.d2 + x_add]
        \* "a = *s++" read a1; a0 and count are the two bytes after it
        Code(a1, a0, count) ==
            IF st.len - 1 < 0 THEN [st EXCEPT !.err = "RLE error"]
            ELSE IF a1 # 0 THEN Emit(a1, 1, st.s + 1, st.len - 1)
            ELSE IF st.len - 3 < 0 THEN [st EXCEPT !.err = "RLE error"]
            ELSE IF count = 0 THEN [st EXCEPT !.err = "zero RLE count"]
            ELSE Emit(a0, count, st.s + 3, st.len - 3)
    IN  IF st.err # "" THEN st
        ELSE IF ~fetch THEN Emit(st.a, st.n - 1, st.s, st.len)
        ELSE Code(RomAt(rom, st.s), RomAt(rom, st.s + 1), RunCount(st.s))

\* "w2 = w; do { ... } while (--w2)": k iterations of the inner loop
RECURSIVE DrawRow(_, _, _, _, _)
DrawRow(st, k, x_add, blend, alpha) ==
    IF k = 1 THEN DrawPixel(st, x_add, blend, alpha)
    ELSE LET half == DrawRow(st, k \div 2, x_add, blend, alpha)
         IN  IF half.err # "" THEN half
             ELSE DrawRow(half, k - (k \div 2), x_add, blend, alpha)

\* One iteration of the outer loop of draw_image, a row chunk: g holds
\* screen, err and the locals src, size, d, y_skip
DrawChunk(g, w, x_skip, x_add, y_add, blend, alpha) ==
    LET y_skip == g.y_skip - 1
        Chunk(len) ==
            LET Next(row) ==
                    [screen |-> row.screen, err |-> row.err,
                     src |-> g.src + len, size |-> g.size - len,
                     d |-> g.d + y_add, y_skip |-> y_skip]
            IN  IF g.size < len
                THEN [g EXCEPT !.err = "read outside the ROM"]
                ELSE IF y_skip >= 0
                THEN Next([screen |-> g.screen, err |-> ""])
                ELSE Next(DrawRow([screen |-> g.screen, err |-> "",
                                   s |-> g.src + 2, len |-> len - 4, a |-> 0,
                                   n |-> 1, skip |-> x_skip, d2 |-> g.d],
                                  w, x_add, blend, alpha))
    IN  IF g.err # "" THEN g ELSE Chunk(ROM_READ16(rom, g.src))

\* "do { ... } while (--h)": k iterations of the outer loop
RECURSIVE DrawRows(_, _, _, _, _, _, _, _)
DrawRows(g, k, w, x_skip, x_add, y_add, blend, alpha) ==
    IF k = 1 THEN DrawChunk(g, w, x_skip, x_add, y_add, blend, alpha)
    ELSE LET half == DrawRows(g, k \div 2, w, x_skip, x_add, y_add, blend,
                              alpha)
         IN  IF half.err # "" THEN half
             ELSE DrawRows(half, k - (k \div 2), w, x_skip, x_add, y_add,
                           blend, alpha)

\* faulty variant: the image is not clipped at the right and bottom edges
ClipExtent_none(p, n, limit) == n

\* "if (x + w > SCREEN_W) w = SCREEN_W - x", and the same for y and h
ClipExtent(p, n, limit) == IF p + n > limit THEN limit - p ELSE n

\* draw_image(sys, x, y, pos, flip, blend, alpha) on the screen scr: the
\* screen it leaves and the message of its ERR_EXIT
draw_image(scr, x0, y0, pos, flip, blend, alpha) ==
    LET Sized(w2, h2) ==
      LET
        x == IF x0 >= SCREEN_W THEN Signed8(x0) ELSE x0
        y == IF y0 >= screen_h THEN Signed8(y0) ELSE y0
        x_skip0 == IF x0 >= SCREEN_W THEN -x ELSE 0
        y_skip0 == IF y0 >= screen_h THEN -y ELSE 0
        w0 == ClipExtent(x, w2, SCREEN_W)
        h0 == ClipExtent(y, h2, screen_h)
        flipx == flip % 2 = 1
        flipy == (flip \div 2) % 2 = 1
        x_add == IF flipx THEN -1 ELSE 1
        y_add == IF flipy THEN -SCREEN_W ELSE SCREEN_W
        w == IF flipx THEN w2 - x_skip0 ELSE w0
        x_skip == IF flipx THEN w2 - w0 ELSE x_skip0
        h == IF flipy THEN h2 - y_skip0 ELSE h0
        y_skip == IF flipy THEN h2 - h0 ELSE y_skip0
        d == y * SCREEN_W + x + (IF flipx THEN w2 - 1 ELSE 0)
               + (IF flipy THEN (h2 - 1) * SCREEN_W ELSE 0)
        same == [screen |-> scr, err |-> ""]
        Result(g) == [screen |-> g.screen, err |-> g.err]
      IN  IF flip > 3 THEN [screen |-> scr, err |-> "unsupported flip"]
          ELSE IF x > SCREEN_W \/ y > screen_h THEN same
          ELSE IF w <= 0 \/ h <= 0 THEN same
          ELSE Result(DrawRows([screen |-> scr, err |-> "", src |-> pos + 4,
                                size |-> rom_size - pos - 4, d |-> d,
                                y_skip |-> y_skip],
                               h, w, x_skip, x_add, y_add, blend, alpha))
    IN  IF RomAt(rom, pos + 1) # 0 \/ RomAt(rom, pos + 3) # 128
        THEN [screen |-> scr, err |-> "unsupported image"]
        ELSE Sized(RomAt(rom, pos), RomAt(rom, pos + 2))

\* draw_char(sys, x, y, id, color, bg), bg = -1 for a transparent background
draw_char(scr, x, y, id, color, bg) ==
    LET w == IF x + 8 > SCREEN_W THEN SCREEN_W - x ELSE 8
        h == IF y + 16 > screen_h THEN screen_h - y ELSE 16
        Glyph(pos) ==
            LET Lit(i, j) == BitAt(RomAt(rom, pos + j), 7 - i) = 1
                Cells(cell) ==
                    [k \in {(y + c[2]) * SCREEN_W + x + c[1] : c \in cell} |->
                        IF Lit((k % SCREEN_W) - x, (k \div SCREEN_W) - y)
                        THEN color ELSE bg]
            IN  IF id < 32 THEN [screen |-> scr, err |-> "unsupported char"]
                ELSE IF rom_size < pos + 16
                THEN [screen |-> scr, err |-> "read outside the ROM"]
                ELSE IF x > SCREEN_W \/ y > screen_h
                THEN [screen |-> scr, err |-> ""]
                ELSE [screen |->
                         Cells({c \in (0 .. (w - 1)) \X (0 .. (h - 1)) :
                                   Lit(c[1], c[2]) \/ bg >= 0}) @@ scr,
                      err |-> ""]
    IN  Glyph(ROM_READ16(rom, 7) + (id - 32) * 16)

ARG_BASE == 256
IMG_W_OUT == 133
IMG_H_OUT == 134

\* the result of a drawing service: the screen it leaves or its ERR_EXIT
Drawn(s, g) ==
    IF g.err # "" THEN Fatal([s EXCEPT !.screen = g.screen], g.err)
    ELSE [s EXCEPT !.screen = g.screen]

\* bios_06, image_size
bios_06(s) ==
    LET id == READ16(s.mem, ARG_BASE)
        Size(m1, im) ==
            IF im.err # "" THEN Fatal([s EXCEPT !.mem = m1], im.err)
            ELSE [s EXCEPT !.mem = Wr(Wr(m1, IMG_W_OUT, RomAt(rom, im.pos)),
                                      IMG_H_OUT, RomAt(rom, im.pos + 2))]
    IN  Size(WRITE16(s.mem, ARG_BASE + 2, id), get_image(id))

\* bios_08 (alpha = 0xff) and bios_0a (alpha = -1), image_draw
DrawService(s, alpha) ==
    LET Draw(im) ==
            IF im.err # "" THEN Fatal(s, im.err)
            ELSE Drawn(s, draw_image(s.screen, Rd(s.mem, ARG_BASE),
                                     Rd(s.mem, ARG_BASE + 1), im.pos,
                                     Rd(s.mem, ARG_BASE + 4),
                                     Rd(s.mem, ARG_BASE + 5), alpha))
    IN  Draw(get_image(READ16(s.mem, ARG_BASE + 2)))

bios_08(s) == DrawService(s, 255)
bios_0a(s) == DrawService(s, -1)

\* faulty variant: the scanline "end" itself is not cleared
ClearEnd_exclusive(end) == IF end > screen_h THEN screen_h ELSE end

\* "end++; if (end > screen_h) end = screen_h;"
ClearEnd(end) == IF end + 1 > screen_h THEN screen_h ELSE end + 1

\* bios_0c, clear_screen: memset(sys->screen + start * SCREEN_W, color,
\* SCREEN_W * (end - start))
bios_0c(s) ==
    LET start == Rd(s.mem, ARG_BASE)
        end == ClearEnd(Rd(s.mem, ARG_BASE + 1))
        color == Rd(s.mem, ARG_BASE + 2)
    IN  IF start >= end THEN s
        ELSE [s EXCEPT !.screen =
                 [k \in (start * SCREEN_W) .. (end * SCREEN_W - 1) |-> color]
                     @@ @]

\* bios_0e, repeat_line
bios_0e(s) ==
    LET start == Rd(s.mem, ARG_BASE)
        end1 == Rd(s.mem, ARG_BASE + 1) + 1
        \* a column g of height h repeated to the right
        Across(g, h) ==
            LET end == IF end1 > SCREEN_W THEN SCREEN_W ELSE end1
                hc == IF h > screen_h THEN screen_h ELSE h
            IN  IF g.err # "" \/ start >= end THEN Drawn(s, g)
                ELSE [s EXCEPT !.screen =
                         [k \in {y * SCREEN_W + x :
                                    y \in 0 .. (hc - 1), x \in start .. (end - 1)}
                             |-> Rd(g.screen,
                                    (k \div SCREEN_W) * SCREEN_W + start)]
                         @@ g.screen]
        \* a row g of width w repeated downwards
        Down(g, w) ==
            LET end == IF end1 > screen_h THEN screen_h ELSE end1
                wc == IF w > SCREEN_W THEN SCREEN_W ELSE w
            IN  IF g.err # "" \/ start >= end THEN Drawn(s, g)
                ELSE [s EXCEPT !.screen =
                         [k \in {y * SCREEN_W + x :
                                    y \in (start + 1) .. (end - 1),
                                    x \in 0 .. (wc - 1)}
                             |-> Rd(g.screen, start * SCREEN_W + (k % SCREEN_W))]
                         @@ g.screen]
        Repeat(im, w, h) ==
            IF w = 1
            THEN Across(draw_image(s.screen, start, 0, im.pos, 0, 255, -1), h)
            ELSE IF h = 1
            THEN Down(draw_image(s.screen, 0, start, im.pos, 0, 255, -1), w)
            ELSE Fatal(s, "unknown repeat mode")
        Image(im) ==
            IF im.err # "" THEN Fatal(s, im.err)
            ELSE Repeat(im, RomAt(rom, im.pos), RomAt(rom, im.pos + 2))
    IN  Image(get_image(READ16(s.mem, ARG_BASE + 2)))

\* faulty variant: the x test alone decides
Intersects_xOnly(cmp) == cmp % 2 = 1

\* "(cmp & 3) != 3" is the miss
Intersects(cmp) == cmp % 4 = 3

\* bios_10, check_intersect
bios_10(s) ==
    LET x1 == Rd(s.mem, ARG_BASE)
        y1 == Rd(s.mem, ARG_BASE + 1)
        x2 == Rd(s.mem, ARG_BASE + 5)
        y2 == Rd(s.mem, ARG_BASE + 6)
        Cmp(w1, h1, w2, h2) ==
            LET c1 == IF (x2 - x1) % 256 < w1 THEN 1 ELSE 0
                c2 == IF (x1 - x2) % 256 < w2 THEN BitOr(c1, 5) ELSE c1
                c3 == IF (y2 - y1) % 256 < h1 THEN BitOr(c2, 2) ELSE c2
            IN  IF (y1 - y2) % 256 < h2 THEN BitOr(c3, 10) ELSE c3
        Test(im1, im2) ==
            IF im1.err # "" THEN Fatal(s, im1.err)
            ELSE IF im2.err # "" THEN Fatal(s, im2.err)
            ELSE [s EXCEPT !.regs.a =
                     IF Intersects(Cmp(RomAt(rom, im1.pos),
                                       RomAt(rom, im1.pos + 2),
                                       RomAt(rom, im2.pos),
                                       RomAt(rom, im2.pos + 2)))
                     THEN 1 ELSE 0]
    IN  Test(get_image(READ16(s.mem, ARG_BASE + 2)),
             get_image(READ16(s.mem, ARG_BASE + 7)))

\* bios_14, bios_16, bios_18, bios_1a and bios_2c: only the bounds check
BiosRomCheck(s) ==
    IF rom_size < READ24(s.mem, ARG_ADDR) + 4
    THEN Fatal(s, "read outside the ROM")
    ELSE s

\* bios_24 (bg = -1) and bios_26 (bg = mem[0x104]), draw_char
CharService(s, bg) ==
    Drawn(s, draw_char(s.screen, Rd(s.mem, ARG_BASE), Rd(s.mem, ARG_BASE + 1),
                       Rd(s.mem, ARG_BASE + 2), Rd(s.mem, ARG_BASE + 3), bg))

\* "switch (s->x)" of the trap at 0x6000
BiosCall(s) ==
    LET x == s.regs.x
    IN  CASE x = 6 -> bios_06(s)
          [] x = 8 -> bios_08(s)
          [] x = 10 -> bios_0a(s)
          [] x = 12 -> bios_0c(s)
          [] x = 14 -> bios_0e(s)
          [] x = 16 -> bios_10(s)
          [] x \in {20, 22, 24, 26, 44} -> BiosRomCheck(s)
          [] x \in {28, 30} -> s
          [] x = 36 -> CharService(s, -1)
          [] x = 38 -> CharService(s, Rd(s.mem, ARG_BASE + 4))
          [] OTHER -> Fatal(s, "unknown syscall")

\* pc == 0x6003: six ROM bytes from the address at 0x80 to 0x8d..0x92
RomReadTrap(s) ==
    LET addr == READ24(s.mem, ARG_ADDR)
        n == rom_size - addr
        Put(m, i) == Wr(m, 141 + i, IF i < n THEN RomAt(rom, addr + i)
                                            ELSE 255 - rom_key)
    IN  IF rom_size <= addr THEN Fatal(s, "read outside the ROM")
        ELSE [s EXCEPT !.mem = Put(Put(Put(Put(Put(Put(@, 0), 1), 2), 3), 4), 5)]

\* faulty variant: the return address stays on the stack
ServiceReturn_keepsp(s) ==
    IF s.err # "" THEN s
    ELSE [ExecRTS([s EXCEPT !.mem = Wr(@, SYS_RET1, RTS_OPCODE)])
            EXCEPT !.sp = s.sp]

\* after a service: "s->mem[pc = SYS_RET1] = 0x60", and the same loop
\* iteration executes that RTS
ServiceReturn(s) ==
    IF s.err # "" THEN s
    ELSE ExecRTS([s EXCEPT !.mem = Wr(@, SYS_RET1, RTS_OPCODE)])

-----------------------------------------------------------------------------
(* The trap dispatch *)

\* faulty variant: the service is the one named by the low byte of pc
TrapStep_lowbyte(s) ==
    IF s.pc = ROM_READ_TRAP THEN ServiceReturn(RomReadTrap(s))
    ELSE IF s.pc = SYS_RET THEN SysRetTrap(s)
    ELSE IF s.pc = ROM_CALL \/ s.pc = ROM_TAIL_CALL THEN RomCallTrap(s)
    ELSE IF s.pc < SYS_RET
    THEN ServiceReturn(BiosCall([s EXCEPT !.regs.x = s.pc % 256]))
    ELSE Fatal(s, "unexpected pc")

\* if (pc >= 0x6000) { ... }
TrapStep(s) ==
    IF s.pc = BIOS_TRAP THEN ServiceReturn(BiosCall(s))
    ELSE IF s.pc = ROM_READ_TRAP THEN ServiceReturn(RomReadTrap(s))
    ELSE IF s.pc = SYS_RET THEN SysRetTrap(s)
    ELSE IF s.pc = ROM_CALL \/ s.pc = ROM_TAIL_CALL THEN RomCallTrap(s)
    ELSE Fatal(s, "unexpected pc")

-----------------------------------------------------------------------------
(* flash_emu: the serial flash behind I/O register 0x02 *)

FLASH_OFF == 0
FLASH_READY == 1
FLASH_CMD == 2
FLASH_CMD2 == 3

CMD_WRITE_STATUS == 1       \* 0x01
CMD_PAGE_PROGRAM == 2       \* 0x02
CMD_WRITE_DISABLE == 4      \* 0x04
CMD_READ_STATUS == 5        \* 0x05
CMD_WRITE_ENABLE == 6       \* 0x06
CMD_SECTOR_ERASE == 32      \* 0x20
CMD_VOLATILE_SR == 80       \* 0x50
\* f->addr = ~0: all ones of a uint32_t, which no READ24 yields; written
\* as -1 because the checker's integers are 32-bit signed
ADDR_NONE == -1
SECTOR_SIZE == 4096         \* 0x1000
PAGE_SIZE == 256            \* addr & 0xff
REG_FLASH == 2              \* o == 0x02
REG_FLASH_ENABLE == 18      \* o == 0x12

\* memset(&sys, 0, sizeof(sys)) in main
FlashInit ==
    [state |-> FLASH_OFF, cmd |-> 0, narg |-> 0, flags |-> 0,
     args |-> [k \in 0 .. 2 |-> 0], addr |-> 0]

\* READ24(f->args)
FlashArgAddr(f) == f.args[0] + 256 * f.args[1] + 65536 * f.args[2]

\* faulty variant: the write-enable bit is not looked at
WriteEnabled_always(f) == TRUE

\* f->flags & 2
WriteEnabled(f) == BitAt(f.flags, 1) = 1

\* faulty variant: the lower end of the save region is not checked
InSaveRegion_noLower(addr) == ~(addr >= rom_size)

\* !(addr < sys->save_offs || addr >= sys->rom_size)
InSaveRegion(addr) == ~(addr < save_offs \/ addr >= rom_size)

\* faulty variant: the sector is filled with 0xff whatever the key
EraseSector_plain(r, addr) ==
    [a \in (DOMAIN r) \cup (addr .. (addr + SECTOR_SIZE - 1)) |->
        IF a >= addr /\ a < addr + SECTOR_SIZE THEN 255 ELSE r[a]]

\* memset(sys->rom + addr, 0xff ^ sys->rom_key, 0x1000)
EraseSector(r, addr) ==
    [a \in (DOMAIN r) \cup (addr .. (addr + SECTOR_SIZE - 1)) |->
        IF a >= addr /\ a < addr + SECTOR_SIZE THEN Xor(255, rom_key) ELSE r[a]]

\* faulty variant: the byte is stored as it was sent
ProgramByte_plain(r, addr, b) == (addr :> b) @@ r

\* sys->rom[addr] = f->args[0] ^ sys->rom_key
ProgramByte(r, addr, b) == (addr :> Xor(b, rom_key)) @@ r

\* f->flags = (f->flags & ~2) | (f->cmd & 2)
SetWriteEnable(flags, cmd) == (flags - 2 * BitAt(flags, 1)) + 2 * BitAt(cmd, 1)

\* faulty variant: command 0x50 sets the write-enable bit
FlashCommand_volatile(f, r) ==
    LET g == [f EXCEPT !.cmd = f.args[0]]
        c == g.cmd
    IN  IF c = CMD_VOLATILE_SR
        THEN [flash |-> [g EXCEPT !.flags = SetWriteEnable(g.flags, 2),
                                  !.state = FLASH_OFF],
              rom |-> r, err |-> ""]
        ELSE IF c = CMD_WRITE_ENABLE \/ c = CMD_WRITE_DISABLE
        THEN [flash |-> [g EXCEPT !.flags = SetWriteEnable(g.flags, c),
                                  !.state = FLASH_OFF],
              rom |-> r, err |-> ""]
        ELSE IF c = CMD_READ_STATUS \/ c = CMD_WRITE_STATUS
        THEN [flash |-> [g EXCEPT !.state = FLASH_CMD2, !.narg = 16],
              rom |-> r, err |-> ""]
        ELSE IF c = CMD_PAGE_PROGRAM \/ c = CMD_SECTOR_ERASE
        THEN [flash |-> [g EXCEPT !.state = FLASH_CMD2, !.narg = 48,
                                  !.addr = ADDR_NONE],
              rom |-> r, err |-> ""]
        ELSE [flash |-> g, rom |-> r, err |-> "unknown flash cmd"]

\* the switch of the FLASH_CMD stage (f->cmd is already set)
FlashCommand(f, r) ==
    LET g == [f EXCEPT !.cmd = f.args[0]]
        c == g.cmd
    IN  IF c = CMD_VOLATILE_SR
        THEN [flash |-> [g EXCEPT !.state = FLASH_OFF], rom |-> r, err |-> ""]
        ELSE IF c = CMD_WRITE_ENABLE \/ c = CMD_WRITE_DISABLE
        THEN [flash |-> [g EXCEPT !.flags = SetWriteEnable(g.flags, c),
                                  !.state = FLASH_OFF],
              rom |-> r, err |-> ""]
        ELSE IF c = CMD_READ_STATUS \/ c = CMD_WRITE_STATUS
        THEN [flash |-> [g EXCEPT !.state = FLASH_CMD2, !.narg = 16],
              rom |-> r, err |-> ""]
        ELSE IF c = CMD_PAGE_PROGRAM \/ c = CMD_SECTOR_ERASE
        THEN [flash |-> [g EXCEPT !.state = FLASH_CMD2, !.narg = 48,
                                  !.addr = ADDR_NONE],
              rom |-> r, err |-> ""]
        ELSE [flash |-> g, rom |-> r, err |-> "unknown flash cmd"]

\* case 0x20 of the FLASH_CMD2 stage
FlashSectorErase(f, r) ==
    LET addr == FlashArgAddr(f)
    IN  IF addr % SECTOR_SIZE # 0
        THEN [flash |-> f, rom |-> r, err |-> "unaligned sector address"]
        ELSE IF ~InSaveRegion(addr)
        THEN [flash |-> f, rom |-> r, err |-> "unexpected erase address"]
        ELSE IF ~WriteEnabled(f)
        THEN [flash |-> [f EXCEPT !.state = FLASH_OFF], rom |-> r, err |-> ""]
        ELSE [flash |-> [f EXCEPT !.state = FLASH_OFF],
              rom |-> EraseSector(r, addr), err |-> ""]

\* case 0x02 of the FLASH_CMD2 stage
FlashPageProgram(f, r) ==
    IF f.addr = ADDR_NONE
    THEN LET addr == FlashArgAddr(f)
             g == [f EXCEPT !.addr = addr]
         IN  IF addr % PAGE_SIZE # 0
             THEN [flash |-> g, rom |-> r, err |-> "unaligned page address"]
             ELSE IF ~InSaveRegion(addr)
             THEN [flash |-> g, rom |-> r, err |-> "unexpected program address"]
             ELSE IF ~WriteEnabled(g)
             THEN [flash |-> [g EXCEPT !.state = FLASH_OFF], rom |-> r, err |-> ""]
             ELSE [flash |-> [g EXCEPT !.narg = 16], rom |-> r, err |-> ""]
    ELSE LET addr == f.addr + 1
             r1 == ProgramByte(r, f.addr, f.args[0])
         IN  IF addr % PAGE_SIZE # 0
             THEN [flash |-> [f EXCEPT !.addr = addr, !.narg = 16],
                   rom |-> r1, err |-> ""]
             ELSE [flash |-> [f EXCEPT !.addr = addr, !.state = FLASH_OFF],
                   rom |-> r1, err |-> ""]

\* the part of flash_emu after the argument bits are complete
FlashExec(f, r) ==
    IF f.state = FLASH_CMD THEN FlashCommand(f, r)
    ELSE IF f.cmd = CMD_SECTOR_ERASE THEN FlashSectorErase(f, r)
    ELSE IF f.cmd = CMD_PAGE_PROGRAM THEN FlashPageProgram(f, r)
    ELSE [flash |-> [f EXCEPT !.state = FLASH_OFF], rom |-> r, err |-> ""]

\* ((data & ~4) ^ (i & 1)) != 2
BadPhase(data, i) == Xor(data - 4 * BitAt(data, 2), i % 2) # 2

\* faulty variant: the argument byte is indexed by the counter as it was
\* before the decrement
FlashShift_before(f, r, data) ==
    LET i == f.narg - 1
        k == f.narg \div 16
        bit == (data \div 4) % 2
        g == [f EXCEPT !.narg = i]
        h == [g EXCEPT !.args[k] = (2 * @ + (data \div 4)) % 256]
    IN  IF BadPhase(data, f.narg)
        THEN [flash |-> f, rom |-> r, err |-> "unexpected flash data"]
        ELSE IF i % 2 = 1
        THEN (IF i # 0 THEN [flash |-> h, rom |-> r, err |-> ""]
              ELSE FlashExec(h, r))
        ELSE IF (bit + f.args[k]) % 2 = 1
        THEN [flash |-> g, rom |-> r, err |-> "wrong bit repeated"]
        ELSE IF i # 0 THEN [flash |-> g, rom |-> r, err |-> ""]
        ELSE FlashExec(g, r)

\* the "if (i) { ... }" block: one half-bit of the argument
FlashShift(f, r, data) ==
    LET i == f.narg - 1
        k == i \div 16
        bit == (data \div 4) % 2
        g == [f EXCEPT !.narg = i]
        h == [g EXCEPT !.args[k] = (2 * @ + (data \div 4)) % 256]
    IN  IF BadPhase(data, f.narg)
        THEN [flash |-> f, rom |-> r, err |-> "unexpected flash data"]
        ELSE IF i % 2 = 1
        THEN (IF i # 0 THEN [flash |-> h, rom |-> r, err |-> ""]
              ELSE FlashExec(h, r))
        ELSE IF (bit + f.args[k]) % 2 = 1
        THEN [flash |-> g, rom |-> r, err |-> "wrong bit repeated"]
        ELSE IF i # 0 THEN [flash |-> g, rom |-> r, err |-> ""]
        ELSE FlashExec(g, r)

\* faulty variant: a store in the OFF state is not ignored
flash_emu_noOff(f, r, data) ==
    IF BitAt(data, 3) = 1
    THEN [flash |-> [f EXCEPT !.state = FLASH_OFF], rom |-> r, err |-> ""]
    ELSE IF f.state = FLASH_READY \/ f.state = FLASH_OFF
    THEN (IF data = 0
          THEN [flash |-> [f EXCEPT !.state = FLASH_CMD, !.narg = 16],
                rom |-> r, err |-> ""]
          ELSE [flash |-> f, rom |-> r, err |-> ""])
    ELSE IF f.narg # 0 THEN FlashShift(f, r, data)
    ELSE FlashExec(f, r)

\* faulty variant: a command started from READY goes on with the half-bits
\* the last one had left
flash_emu_stale(f, r, data) ==
    IF f.state = FLASH_OFF THEN [flash |-> f, rom |-> r, err |-> ""]
    ELSE IF BitAt(data, 3) = 1
    THEN [flash |-> [f EXCEPT !.state = FLASH_OFF], rom |-> r, err |-> ""]
    ELSE IF f.state = FLASH_READY
    THEN (IF data = 0
          THEN [flash |-> [f EXCEPT !.state = FLASH_CMD,
                                    !.narg = IF @ = 0 THEN 16 ELSE @],
                rom |-> r, err |-> ""]
          ELSE [flash |-> f, rom |-> r, err |-> ""])
    ELSE IF f.narg # 0 THEN FlashShift(f, r, data)
    ELSE FlashExec(f, r)

\* flash_emu(sys, s), data = s->mem[0x02]
flash_emu(f, r, data) ==
    IF f.state = FLASH_OFF THEN [flash |-> f, rom |-> r, err |-> ""]
    ELSE IF BitAt(data, 3) = 1
    THEN [flash |-> [f EXCEPT !.state = FLASH_OFF], rom |-> r, err |-> ""]
    ELSE IF f.state = FLASH_READY
    THEN (IF data = 0
          THEN [flash |-> [f EXCEPT !.state = FLASH_CMD, !.narg = 16],
                rom |-> r, err |-> ""]
          ELSE [flash |-> f, rom |-> r, err |-> ""])
    ELSE IF f.narg # 0 THEN FlashShift(f, r, data)
    ELSE FlashExec(f, r)

-----------------------------------------------------------------------------
(* run_emu: the store path, "if (p) { *p = t; ... }" *)

InWindowArea(o) == o >= FRAME_BASE /\ o < FRAME_BASE + FRAME_SIZE_LIMIT

\* the bits of sys->keys above the eight buttons
QUIT_BIT == 16
RESET_BIT == 17
POWEROFF_BIT == 18
WAI_BIT == 19
CLEAN_BIT == 20

KeyOn(k, n) == BitAt(k, n) = 1
KeySet(k, n) == BitOr(k, 2 ^ n)
KeyClear(k, n) == k - (2 ^ n) * BitAt(k, n)

REG_POWER == 0
LCD_CMD == 32768
LCD_DISPLAY_OFF == 40

\* A store of t to address o: "*p = t" and the memory-mapped registers.  A
\* zero stored to 0x00 sets bits 18 and 20 of sys->keys and leaves the loop
\* of run_emu by "break", which falls to the label "end".
CpuStore(s, f, r, o, t) ==
    LET m1 == Wr(s.mem, o, t)
        s1 == [s EXCEPT !.mem = m1, !.wstore = @ \/ InWindowArea(o)]
    IN  IF o = REG_FLASH
        THEN LET x == flash_emu(f, r, Rd(m1, REG_FLASH))
             IN  [cpu |-> IF x.err # "" THEN Fatal(s1, x.err) ELSE s1,
                  flash |-> x.flash, rom |-> x.rom]
        ELSE IF o = REG_FLASH_ENABLE
        THEN [cpu |-> s1,
              flash |-> [f EXCEPT !.state = IF t # 0 THEN FLASH_OFF
                                                     ELSE FLASH_READY],
              rom |-> r]
        ELSE IF o = REG_POWER /\ t = 0
        THEN [cpu |-> EndRun([s1 EXCEPT !.keys =
                                 KeySet(KeySet(@, POWEROFF_BIT), CLEAN_BIT)]),
              flash |-> f, rom |-> r]
        ELSE IF o = LCD_CMD /\ t = LCD_DISPLAY_OFF
        THEN [cpu |-> [s1 EXCEPT !.keys = KeySet(@, CLEAN_BIT)],
              flash |-> f, rom |-> r]
        ELSE [cpu |-> s1, flash |-> f, rom |-> r]

\* ARITH4(0xe6): INC of the memory byte at o, "t = *p + 1; zflag = t;
\* nflag = t;", then the store path with the t it computed.  For the
\* addresses whose read has no side effect (not 0x00, 0x02, 0x14, 0x7b, 0x93).
ExecINC(s, f, r, o) ==
    LET t == Rd(s.mem, o) + 1
        s1 == [s EXCEPT !.regs.zflag = t % 256, !.regs.nflag = t % 256]
    IN  CpuStore(s1, f, r, o, t)

-----------------------------------------------------------------------------
(* run_emu: ADC and SBC *)

OP_ADC_IMM == 105
OP_SBC_IMM == 233

\* cflag >> 8, the carry the next ADC, SBC or ROL adds
CarryIn(r) == r.cflag \div 256

\* faulty variant: SBC corrects the low nibble as ADC does
DecimalSum_adcLow(r, op, t) ==
    LET lo == (r.a % 16) + (t % 16) + CarryIn(r)
        b1 == IF lo >= 10 THEN lo + 6 ELSE lo
    IN  (r.a - (r.a % 16)) + (t - (t % 16))
        + (IF b1 >= 16 THEN 16 ELSE 0) + (b1 % 16)

\* the decimal branch of op_add2: the int b after the low-nibble correction
\* and the recombination with the high nibbles
DecimalSum(r, op, t) ==
    LET lo == (r.a % 16) + (t % 16) + CarryIn(r)
        b1 == IF op <= 127
              THEN (IF lo >= 10 THEN lo + 6 ELSE lo)
              ELSE (IF lo < 16 THEN lo - 6 ELSE lo)
    IN  (r.a - (r.a % 16)) + (t - (t % 16))
        + (IF b1 >= 16 THEN 16 ELSE 0) + (b1 % 16)

\* (b ^ a) & ~d with d = a ^ t, as the int8_t vflag
OverflowByte(b, a, t) == BitAnd(Xor(b % 256, a), 255 - Xor(a, t))

\* faulty variant: the decimal ADC takes cflag before the 0x60 fix-up
OpAdd2_prefix(r, op, t) ==
    IF BitAnd(r.flags, MASK_D) # 0
    THEN LET b == DecimalSum(r, op, t)
             fixed == IF op <= 127
                      THEN (IF b >= 160 THEN b + 96 ELSE b)
                      ELSE (IF b < 256 THEN b - 96 ELSE b)
         IN  [r EXCEPT !.a = fixed % 256, !.zflag = fixed % 256,
                       !.nflag = fixed % 256,
                       !.vflag = OverflowByte(b, r.a, t),
                       !.cflag = b % 65536]
    ELSE LET sum == t + r.a + CarryIn(r)
         IN  [r EXCEPT !.a = sum % 256, !.zflag = sum % 256,
                       !.nflag = sum % 256,
                       !.vflag = OverflowByte(sum, r.a, t),
                       !.cflag = sum % 65536]

\* op_add2: ... s->a = t; zflag = t; nflag = t, for the opcode op and the
\* operand t (already inverted for SBC)
OpAdd2(r, op, t) ==
    IF BitAnd(r.flags, MASK_D) # 0
    THEN LET b == DecimalSum(r, op, t)
             fixed == IF op <= 127
                      THEN (IF b >= 160 THEN b + 96 ELSE b)
                      ELSE (IF b < 256 THEN b - 96 ELSE b)
         IN  [r EXCEPT !.a = fixed % 256, !.zflag = fixed % 256,
                       !.nflag = fixed % 256,
                       !.vflag = OverflowByte(b, r.a, t),
                       !.cflag = (IF op <= 127 THEN fixed ELSE b) % 65536]
    ELSE LET sum == t + r.a + CarryIn(r)
         IN  [r EXCEPT !.a = sum % 256, !.zflag = sum % 256,
                       !.nflag = sum % 256,
                       !.vflag = OverflowByte(sum, r.a, t),
                       !.cflag = sum % 65536]

\* case 0x69: ADC #, "t = *p" with p = &NEXT
ExecADC(s) ==
    [s EXCEPT !.pc = (s.pc + 2) % 65536,
              !.regs = OpAdd2(s.regs, OP_ADC_IMM, Rd(s.mem, (s.pc + 1) % 65536))]

\* case 0xe9: SBC #, "t = *p ^ 0xff; goto op_add2"
ExecSBC(s) ==
    [s EXCEPT !.pc = (s.pc + 2) % 65536,
              !.regs = OpAdd2(s.regs, OP_SBC_IMM,
                              Xor(Rd(s.mem, (s.pc + 1) % 65536), 255))]

-----------------------------------------------------------------------------
(* run_emu: the branches *)

\* BPL, BMI, BVC, BVS, BRA, BCC, BCS, BNE, BEQ
RelBranchOps == {16, 48, 80, 112, 128, 144, 176, 208, 240}

\* BBR0..BBR7 and BBS0..BBS7: the opcodes 0x0f, 0x1f, ..., 0xff
BitBranchOps == {16 * k + 15 : k \in 0 .. 15}

\* the conditions of the BRANCH(...) lines
BranchCond(r, op) ==
    CASE op = 16 -> r.nflag < 128
      [] op = 48 -> r.nflag >= 128
      [] op = 80 -> r.vflag < 128
      [] op = 112 -> r.vflag >= 128
      [] op = 128 -> TRUE
      [] op = 144 -> r.cflag < 256
      [] op = 176 -> r.cflag >= 256
      [] op = 208 -> r.zflag # 0
      [] op = 240 -> r.zflag = 0

\* the "reads memory" switch: what a read of address o leaves in the byte
\* (address 0x00, which polls the host, is not modelled)
ReadPort(m, o) ==
    CASE o = 2 -> Rd(m, o) - 2 * BitAt(Rd(m, o), 1)
      [] o = 20 -> BitOr(Rd(m, o), 64)
      [] o = 123 -> BitOr(Rd(m, o), 8)
      [] o = 147 -> BitOr(Rd(m, o), 128)
      [] OTHER -> Rd(m, o)

\* MOD_R: t = *(int8_t*)&NEXT; BRANCH(cond): if (cond) pc += t
ExecBranch(s) ==
    LET op == Rd(s.mem, s.pc)
        t == Signed8(Rd(s.mem, (s.pc + 1) % 65536))
        next == s.pc + 2
    IN  [s EXCEPT !.pc = (IF BranchCond(s.regs, op) THEN next + t ELSE next)
                         % 65536]

\* BBRn / BBSn: o = NEXT; bit = *p >> (op >> 4 & 7) & 1;
\* t = *(int8_t*)&NEXT; BRANCH(bit == op >> 7)
ExecBitBranch(s) ==
    LET op == Rd(s.mem, s.pc)
        o == Rd(s.mem, (s.pc + 1) % 65536)
        v == ReadPort(s.mem, o)
        bit == BitAt(v, (op \div 16) % 8)
        t == Signed8(Rd(s.mem, (s.pc + 2) % 65536))
        next == s.pc + 3
    IN  [s EXCEPT !.mem = IF v = Rd(s.mem, o) THEN s.mem ELSE Wr(s.mem, o, v),
                  !.pc = (IF bit = op \div 128 THEN next + t ELSE next) % 65536]

-----------------------------------------------------------------------------
(* run_game: the dispatch of a frame, and the states run_emu is entered in *)

\* sys->frame_depth = 0; s->sp = 0x7f; s->pc = 0x60de;
\* WRITE24(s->mem + 0x80, READ16(sys->rom + 3));
\* WRITE16(s->mem + 0x83, READ16(sys->rom + 3 + 2));
BootDispatch(r) ==
    [mem |-> WRITE16(WRITE24(Wr(Wr(<<>>, 163, 1), 153, rom_key),
                             ARG_ADDR, ROM_READ16(r, 3)),
                     ARG_SIZE, ROM_READ16(r, 5)),
     pc |-> ROM_CALL, sp |-> BOOT_SP, regs |-> RegsInit, depth |-> 0,
     frames |-> [k \in 0 .. (FRAME_STACK_MAX - 1) |-> [addr |-> 0, size |-> 0]],
     running |-> TRUE, err |-> "", wstore |-> FALSE, keys |-> 0,
     screen |-> <<>>, diag |-> <<>>,
     input_timer |-> 0, polls |-> 0, pumps |-> 0, updates |-> 0]

\* the state after n nested ROM calls of the frame named at 0x80..0x84, each
\* made by a jump to 0x60de
RECURSIVE NestedCalls(_, _)
NestedCalls(s, n) ==
    IF n = 0 THEN s
    ELSE NestedCalls(RomCallTrap([s EXCEPT !.pc = ROM_CALL]), n - 1)

-----------------------------------------------------------------------------
(* The firmware: the instructions run_emu executes below 0x6000 *)

RomKeys == {0, 90}

\* The (address, size word) pairs the firmware stores at 0x80..0x84: the boot
\* frame, a frame ending at the last ROM byte, a frame ending past it, and a
\* frame of 0x500 bytes.
ArgChoices ==
    {<<ROM_READ16(rom, 3), ROM_READ16(rom, 5)>>,
     <<rom_size - 16, 8>>,
     <<rom_size - 6, 4>>,
     <<ROM_READ16(rom, 3), FRAME_SIZE_LIMIT \div 2>>}

\* addresses the firmware stores to: the first byte of the window, a byte
\* inside a 16-byte window but outside an 8-byte one
StoreAddrs == {FRAME_BASE, FRAME_BASE + 8}
StoreValues == {90}

\* values the firmware loads into SP
SpChoices == {0, 1}

\* the trap addresses the firmware jumps to
JumpTargets == {ROM_CALL, ROM_TAIL_CALL, SYS_RET}

FwAlive == running /\ err = "" /\ pc < TRAP_BASE

Tick == ticks < MaxTicks /\ ticks' = ticks + 1

\* five zero-page stores: WRITE24 at 0x80 and WRITE16 at 0x83
FwSetArgs(c) ==
    /\ FwAlive
    /\ Tick
    /\ mem' = WRITE16(WRITE24(mem, ARG_ADDR, c[1]), ARG_SIZE, c[2])
    /\ UNCHANGED <<rom_size, rom_mask, save_file, rom_key,
                   init_done, gpos, keys, screen, diag,
                   input_timer, polls, pumps, updates,
                   rom, flash, depth, frames, pc, sp,
                   regs, running, err, ncmds, wstore>>

\* STA/STX/STY/STZ to a plain RAM address
FwStore(o, t) ==
    /\ FwAlive
    /\ Tick
    /\ LET x == CpuStore(CpuState, flash, rom, o, t)
       IN  SetCpu(x.cpu) /\ flash' = x.flash /\ rom' = x.rom
    /\ UNCHANGED <<rom_size, rom_mask, save_file, rom_key,
                   init_done, gpos, ncmds>>

\* case 0xa2: LDX #v, then case 0x9a: TXS
FwTXS(v) ==
    /\ FwAlive
    /\ Tick
    /\ sp' = v
    /\ regs' = [regs EXCEPT !.x = v, !.zflag = v, !.nflag = v]
    /\ UNCHANGED <<rom_size, rom_mask, save_file, rom_key,
                   init_done, gpos, keys, screen, diag,
                   input_timer, polls, pumps, updates,
                   rom, flash, depth, frames, mem, pc,
                   running, err, ncmds, wstore>>

\* case 0x4c: JMP a
FwJmp(target) ==
    /\ FwAlive
    /\ Tick
    /\ pc' = target
    /\ UNCHANGED <<rom_size, rom_mask, save_file, rom_key,
                   init_done, gpos, keys, screen, diag,
                   input_timer, polls, pumps, updates,
                   rom, flash, depth, frames, mem, sp,
                   regs, running, err, ncmds, wstore>>

\* case 0x60: RTS
FwRTS ==
    /\ FwAlive
    /\ Tick
    /\ SetCpu(ExecRTS(CpuState))
    /\ UNCHANGED <<rom_size, rom_mask, save_file, rom_key,
                   init_done, gpos, rom, flash, ncmds>>

\* one loop iteration with pc at a paging trap
Trap ==
    /\ running
    /\ err = ""
    /\ pc >= TRAP_BASE
    /\ Tick
    /\ SetCpu(TrapStep(CpuState))
    /\ UNCHANGED <<rom_size, rom_mask, save_file, rom_key,
                   init_done, gpos, rom, flash, ncmds>>

-----------------------------------------------------------------------------
(* The paging specification: run_emu entered with an empty frame stack at one
   of the paging entry points, or resumed (after WAI) FRAME_STACK_MAX - 1
   calls deep *)

EntryStates ==
    {[BootDispatch(rom) EXCEPT !.pc = e] : e \in JumpTargets}
    \cup {NestedCalls(BootDispatch(rom), FRAME_STACK_MAX - 1)}

InitFrames ==
    /\ rom_size \in RomSizes
    /\ rom_key = 0
    /\ rom = <<>>
    /\ flash = FlashInit
    /\ ticks = 0
    /\ ncmds = 0
    /\ HostIdle
    /\ keys = 0
    /\ screen = <<>>
    /\ init_done = TRUE
    /\ gpos = "emu"
    /\ diag = <<>>
    /\ \E s \in EntryStates :
        /\ mem = s.mem
        /\ pc = s.pc
        /\ sp = s.sp
        /\ regs = s.regs
        /\ depth = s.depth
        /\ frames = s.frames
        /\ running = s.running
        /\ err = s.err
        /\ wstore = s.wstore

NextFrames ==
    \/ Trap
    \/ \E c \in ArgChoices : FwSetArgs(c)
    \/ \E o \in StoreAddrs, t \in StoreValues : FwStore(o, t)
    \/ \E v \in SpChoices : FwTXS(v)
    \/ \E target \in JumpTargets : FwJmp(target)
    \/ FwRTS

SpecFrames == InitFrames /\ [][NextFrames]_vars

-----------------------------------------------------------------------------
(* The firmware's flash driver: stores to the registers 0x02 and 0x12.
   A message is sent most significant bit first, each bit as two stores
   (2 + 4 * bit, then 3 + 4 * bit).  The driver sends one of a few messages,
   may break off, and may send a store the protocol does not allow. *)

\* the command bytes the driver sends (0x03 is a command flash_emu does not know)
CmdTargets ==
    {CMD_WRITE_ENABLE, CMD_WRITE_DISABLE, CMD_VOLATILE_SR, CMD_READ_STATUS,
     CMD_PAGE_PROGRAM, CMD_SECTOR_ERASE, 3}

\* sector addresses: the first and the last sector of the save region, a
\* misaligned one, the sector below the region and the one past the ROM
SectorTargets ==
    {save_offs, rom_size - SECTOR_SIZE, save_offs + PAGE_SIZE,
     save_offs - SECTOR_SIZE, rom_size}

\* page addresses: the first and the last page of the save region, a
\* misaligned one, the page below the region and the one past the ROM
PageTargets ==
    {save_offs, rom_size - PAGE_SIZE, save_offs + 1, save_offs - PAGE_SIZE,
     rom_size}

\* the byte the driver programs at ROM offset a
ProgData(a) == (7 * (a % 256) + (a \div 256) + 1) % 256

\* Page Program is past its address and takes data bytes
InDataPhase(f) ==
    f.state = FLASH_CMD2 /\ f.cmd = CMD_PAGE_PROGRAM /\ f.addr # ADDR_NONE

\* the number of bytes of the message flash_emu is receiving (f->narg / 16 at
\* its start)
MsgBytes(f) ==
    IF f.state = FLASH_CMD2
       /\ (f.cmd = CMD_PAGE_PROGRAM \/ f.cmd = CMD_SECTOR_ERASE)
       /\ ~InDataPhase(f)
    THEN 3 ELSE 1

\* the messages the driver may be sending
MsgTargets(f) ==
    IF f.state = FLASH_CMD THEN CmdTargets
    ELSE IF f.cmd = CMD_SECTOR_ERASE THEN SectorTargets
    ELSE IF f.cmd = CMD_PAGE_PROGRAM
    THEN (IF f.addr = ADDR_NONE THEN PageTargets ELSE {ProgData(f.addr)})
    ELSE {0}

\* the number of bits of the message received so far
BitsReceived(f) == (16 * MsgBytes(f) - f.narg + 1) \div 2

\* the bits received so far are the leading bits of the message T
PrefixOf(f, T) ==
    \A k \in 0 .. (MsgBytes(f) - 1) :
        LET before == 8 * (MsgBytes(f) - 1 - k)
            got == BitsReceived(f) - before
            kb == IF got < 0 THEN 0 ELSE IF got > 8 THEN 8 ELSE got
        IN  ((T \div (256 ^ k)) % 256) \div (2 ^ (8 - kb)) = f.args[k] % (2 ^ kb)

\* the store that continues the message T
NextData(f, T) ==
    IF f.narg % 2 = 0
    THEN 2 + 4 * BitAt(T, 8 * MsgBytes(f) - 1 - BitsReceived(f))
    ELSE 3 + 4 * (f.args[(f.narg - 1) \div 16] % 2)

\* where the driver may break a message off: anywhere in a command byte, at
\* the byte boundaries of an address, and between the first data bytes
MayBreakOff(f) ==
    \/ f.state = FLASH_OFF
    \/ f.state = FLASH_READY
    \/ f.state = FLASH_CMD
    \/ f.state = FLASH_CMD2 /\ f.narg % 16 = 0
       /\ (InDataPhase(f) => f.addr % PAGE_SIZE < MaxGlitchBytes)

FlashData == {0, 2, 3, 6, 7, 8}
\* the bytes the driver stores to 0x12
EnableData == {0, 255}

\* STA 0x02
FwFlashWrite(d) ==
    /\ running /\ err = ""
    /\ LET x == CpuStore(CpuState, flash, rom, REG_FLASH, d)
       IN  /\ CASE flash.state = FLASH_OFF -> d = 0
                [] flash.state = FLASH_READY ->
                       d = 8 \/ d = 2 \/ (d = 0 /\ ncmds < MaxCmds)
                [] OTHER ->
                       \/ d = 8 /\ MayBreakOff(flash)
                       \/ d # 8 /\ ~InDataPhase(flash) /\ x.cpu.err # ""
                       \/ \E T \in MsgTargets(flash) :
                             PrefixOf(flash, T) /\ d = NextData(flash, T)
           /\ SetCpu(x.cpu) /\ flash' = x.flash /\ rom' = x.rom
           /\ ncmds' = IF flash.state = FLASH_READY /\ d = 0
                       THEN ncmds + 1 ELSE ncmds
    /\ UNCHANGED <<rom_size, rom_mask, save_file, rom_key,
                   init_done, gpos, ticks>>

\* STA 0x12
FwFlashEnable(t) ==
    /\ running /\ err = ""
    /\ MayBreakOff(flash)
    /\ LET x == CpuStore(CpuState, flash, rom, REG_FLASH_ENABLE, t)
       IN  SetCpu(x.cpu) /\ flash' = x.flash /\ rom' = x.rom
    /\ UNCHANGED <<rom_size, rom_mask, save_file, rom_key,
                   init_done, gpos, ticks, ncmds>>

\* INC 0x12, which the driver does when the register holds 0xff
FwFlashEnableInc ==
    /\ running /\ err = ""
    /\ MayBreakOff(flash)
    /\ Rd(mem, REG_FLASH_ENABLE) = 255
    /\ LET x == ExecINC(CpuState, flash, rom, REG_FLASH_ENABLE)
       IN  SetCpu(x.cpu) /\ flash' = x.flash /\ rom' = x.rom
    /\ UNCHANGED <<rom_size, rom_mask, save_file, rom_key,
                   init_done, gpos, ticks, ncmds>>

\* the firmware runs in its boot frame, the flash is as main leaves it
InitFlash ==
    /\ rom_size \in RomSizes
    /\ rom_key \in RomKeys
    /\ rom = <<>>
    /\ flash = FlashInit
    /\ ticks = 0
    /\ ncmds = 0
    /\ HostIdle
    /\ keys = 0
    /\ screen = <<>>
    /\ init_done = TRUE
    /\ gpos = "emu"
    /\ diag = <<>>
    /\ LET s == NestedCalls(BootDispatch(rom), 1)
       IN  /\ mem = s.mem /\ pc = s.pc /\ sp = s.sp /\ depth = s.depth
           /\ regs = s.regs
           /\ frames = s.frames /\ running = s.running /\ err = s.err
           /\ wstore = s.wstore

NextFlash ==
    \/ \E d \in FlashData : FwFlashWrite(d)
    \/ \E t \in EnableData : FwFlashEnable(t)
    \/ FwFlashEnableInc

SpecFlash == InitFlash /\ [][NextFlash]_vars

-----------------------------------------------------------------------------
(* The arithmetic specification: the firmware runs in its boot frame with one
   ADC # or SBC # instruction stored at the start of the window and any accumulator, operand,
   carry and decimal flag.  Every register value the instruction reads is an
   initial state, so a behaviour executes the one instruction. *)

\* op = s->mem[pc++] is the opcode at pc
FetchIs(op) == running /\ err = "" /\ pc < TRAP_BASE /\ Rd(mem, pc) = op

StepADC ==
    /\ FetchIs(OP_ADC_IMM)
    /\ SetCpu(ExecADC(CpuState))
    /\ UNCHANGED <<rom_size, rom_mask, save_file, rom_key,
                   init_done, gpos, rom, flash, ticks, ncmds>>

StepSBC ==
    /\ FetchIs(OP_SBC_IMM)
    /\ SetCpu(ExecSBC(CpuState))
    /\ UNCHANGED <<rom_size, rom_mask, save_file, rom_key,
                   init_done, gpos, rom, flash, ticks, ncmds>>

InitAlu ==
    /\ rom_size = 4194304
    /\ rom_key = 0
    /\ rom = <<>>
    /\ flash = FlashInit
    /\ ticks = 0
    /\ ncmds = 0
    /\ HostIdle
    /\ keys = 0
    /\ screen = <<>>
    /\ init_done = TRUE
    /\ gpos = "emu"
    /\ diag = <<>>
    /\ \E s \in {NestedCalls(BootDispatch(rom), 1)},
          op \in {OP_ADC_IMM, OP_SBC_IMM}, A \in Byte, M \in Byte,
          C \in {0, 1}, D \in {0, 1} :
        LET P == MASK_D * D + C
        IN  /\ mem = Wr(Wr(s.mem, FRAME_BASE, op), FRAME_BASE + 1, M)
            /\ pc = FRAME_BASE
            /\ sp = s.sp
            /\ regs = UNPACK_FLAGS([s.regs EXCEPT !.a = A, !.flags = P], P)
            /\ depth = s.depth /\ frames = s.frames
            /\ running = s.running /\ err = s.err /\ wstore = TRUE

NextAlu == StepADC \/ StepSBC

SpecAlu == InitAlu /\ [][NextAlu]_vars

-----------------------------------------------------------------------------
(* The branch specification: the firmware runs in its boot frame, the window
   starts with a branch, or with ADC # followed by a branch, and the flags
   are those of any P register with any decimal flag. *)

StepBranch ==
    /\ running /\ err = "" /\ pc < TRAP_BASE
    /\ Rd(mem, pc) \in RelBranchOps
    /\ SetCpu(ExecBranch(CpuState))
    /\ UNCHANGED <<rom_size, rom_mask, save_file, rom_key,
                   init_done, gpos, rom, flash, ticks, ncmds>>

StepBitBranch ==
    /\ running /\ err = "" /\ pc < TRAP_BASE
    /\ Rd(mem, pc) \in BitBranchOps
    /\ Rd(mem, (pc + 1) % 65536) # 0
    /\ SetCpu(ExecBitBranch(CpuState))
    /\ UNCHANGED <<rom_size, rom_mask, save_file, rom_key,
                   init_done, gpos, rom, flash, ticks, ncmds>>

\* the P registers with B, I and the unused bit clear
FlagBytes == {128 * n + 64 * v + 8 * d + 2 * z + c :
                 n \in {0, 1}, v \in {0, 1}, d \in {0, 1}, z \in {0, 1},
                 c \in {0, 1}}

\* displacements: forwards, backwards, and back onto the branch itself
Displacements == {5, 128, 254}

\* the zero-page byte a bit branch tests, and its values
BIT_OPERAND == 16
BitOperandValues == {0, 165, 255}

\* the programs: a sequence of bytes and the value of the tested byte
BranchPrograms ==
    {[code |-> <<op, t>>, zp |-> 0] : op \in RelBranchOps, t \in Displacements}
    \cup {[code |-> <<OP_ADC_IMM, 255, op, t>>, zp |-> 0] :
             op \in RelBranchOps, t \in Displacements}
    \cup {[code |-> <<op, BIT_OPERAND, t>>, zp |-> b] :
             op \in BitBranchOps, t \in Displacements, b \in BitOperandValues}

\* the bytes of code stored from FRAME_BASE on
LoadProgram(m, code) ==
    [a \in (DOMAIN m) \cup (FRAME_BASE .. (FRAME_BASE + Len(code) - 1)) |->
        IF a >= FRAME_BASE /\ a < FRAME_BASE + Len(code)
        THEN code[a - FRAME_BASE + 1] ELSE m[a]]

InitBranch ==
    /\ rom_size = 4194304
    /\ rom_key = 0
    /\ rom = <<>>
    /\ flash = FlashInit
    /\ ticks = 0
    /\ ncmds = 0
    /\ HostIdle
    /\ keys = 0
    /\ screen = <<>>
    /\ init_done = TRUE
    /\ gpos = "emu"
    /\ diag = <<>>
    /\ \E s \in {NestedCalls(BootDispatch(rom), 1)}, prog \in BranchPrograms,
          P \in FlagBytes, A \in {1, 255} :
        /\ mem = Wr(LoadProgram(s.mem, prog.code), BIT_OPERAND, prog.zp)
        /\ pc = FRAME_BASE
        /\ sp = s.sp
        /\ regs = UNPACK_FLAGS([s.regs EXCEPT !.a = A, !.flags = P], P)
        /\ depth = s.depth /\ frames = s.frames
        /\ running = s.running /\ err = s.err /\ wstore = TRUE

NextBranch == StepBranch \/ StepBitBranch \/ StepADC

SpecBranch == InitBranch /\ [][NextBranch]_vars

-----------------------------------------------------------------------------
(* run_game: the boot frame, the tick loop and the host's events.  The host
   clock and the event queue of the window are inputs. *)

\* sys.keymap, which main fills in from the ROM size
keymap(i) ==
    IF rom_size = 4194304 THEN <<4, 5, 6, 3, 2>>[i + 1]
                          ELSE <<2, 3, 4, 5, 6>>[i + 1]

\* game_event's inner switch: the bit of sys->keys a key drives, -1 for none
key2(key) ==
    CASE key = "left" -> keymap(0)
      [] key = "down" -> keymap(1)
      [] key = "right" -> keymap(2)
      [] key = "delete" -> keymap(3)
      [] key = "pagedown" -> keymap(4)
      [] key = "r" -> RESET_BIT
      [] OTHER -> -1

\* game_event over the events q that window_event hands out before
\* EVENT_EMPTY; Escape pressed or EVENT_QUIT sets bit 16 and returns
RECURSIVE game_event(_, _)
game_event(k, q) ==
    IF q = <<>> THEN k
    ELSE LET e == Head(q)
             b == key2(e.key)
         IN  IF e.ev = "quit" \/ (e.ev = "press" /\ e.key = "escape")
             THEN KeySet(k, QUIT_BIT)
             ELSE IF e.ev \in {"press", "release"} /\ b >= 0
             THEN game_event(IF e.ev = "press" THEN KeySet(k, b)
                                               ELSE KeyClear(k, b), Tail(q))
             ELSE game_event(k, Tail(q))

\* sys_update: the framebuffer is converted into the window's image and
\* window_update presents it
sys_update(s) == [s EXCEPT !.updates = @ + 1]

\* a call of game_event on the events q
PumpEvents(s, q) == [s EXCEPT !.keys = game_event(@, q), !.pumps = @ + 1]

INPUT_PERIOD == 16
REG_KEYS == 0

\* faulty variant: the window is polled on every read of 0x00
PollDue_always(t) == TRUE

\* "if (++input_timer >= 16)"
PollDue(t) == t >= INPUT_PERIOD

\* faulty variant: the read of 0x00 presents the framebuffer before it
\* reads the window's events
ReadKeys_present(s, q) ==
    LET Polled(s1) ==
            [s1 EXCEPT !.mem = Wr(@, REG_KEYS, 255 - (s1.keys % 256)),
                       !.polls = @ + 1]
    IN  IF PollDue(s.input_timer + 1)
        THEN Polled(PumpEvents(sys_update([s EXCEPT !.input_timer = 0]), q))
        ELSE Polled([s EXCEPT !.input_timer = @ + 1])

\* "case 0x00" of the "reads memory" switch: game_event on every 16th
\* access, then "*p = ~sys->keys"
ReadKeys(s, q) ==
    LET Polled(s1) ==
            [s1 EXCEPT !.mem = Wr(@, REG_KEYS, 255 - (s1.keys % 256)),
                       !.polls = @ + 1]
    IN  IF PollDue(s.input_timer + 1)
        THEN Polled(PumpEvents([s EXCEPT !.input_timer = 0], q))
        ELSE Polled([s EXCEPT !.input_timer = @ + 1])

\* case 0xa5 with the operand 0x00: the read of 0x00, then
\* "s->a = t = *p; zflag = t; nflag = t"
ExecLDAKeys(s, q) ==
    LET Load(s1, t) ==
            [s1 EXCEPT !.regs = [@ EXCEPT !.a = t, !.zflag = t, !.nflag = t]]
        Read(s1) == Load(s1, Rd(s1.mem, REG_KEYS))
    IN  Read(ReadKeys(s, q))

\* run_emu's entry: UNPACK_FLAGS of s->flags, then its loop
EnterRun(s) ==
    [s EXCEPT !.running = TRUE, !.regs = UNPACK_FLAGS(@, @.flags),
              !.input_timer = 0, !.polls = 0, !.pumps = 0]

\* faulty variant: the address is read from the header as three bytes
DispatchFrame_read24(s, r, hdr) ==
    [s EXCEPT !.depth = 0, !.sp = BOOT_SP, !.pc = ROM_CALL,
              !.mem = WRITE16(WRITE24(@, ARG_ADDR, ROM_READ24(r, hdr)),
                              ARG_SIZE, ROM_READ16(r, hdr + 2))]

\* the dispatch of the frame whose address and size the ROM header holds at
\* hdr: frame_depth = 0, sp = 0x7f, pc = 0x60de, WRITE24 and WRITE16 of the
\* two READ16s
DispatchFrame(s, r, hdr) ==
    [s EXCEPT !.depth = 0, !.sp = BOOT_SP, !.pc = ROM_CALL,
              !.mem = WRITE16(WRITE24(@, ARG_ADDR, ROM_READ16(r, hdr)),
                              ARG_SIZE, ROM_READ16(r, hdr + 2))]

BOOT_HDR == 3
GAME_HDR == 27
REG_START_ANIM == 163
REG_ROM_KEY == 153
REG_IDLE_TIMER == 385
REG_TIMER == 175
REG_TIMER_ENABLE == 147

\* the lines of "if (!sys->init_done)" before its run_emu
BootFrame(s, r) ==
    DispatchFrame([s EXCEPT !.mem = Wr(Wr(@, REG_START_ANIM,
                                          BitOr(Rd(@, REG_START_ANIM), 1)),
                                       REG_ROM_KEY, rom_key)], r, BOOT_HDR)

\* faulty variant: the game frame is dispatched on every tick, a pending WAI
\* included
TickHead_dispatch(s, r, d) ==
    LET a == READ16(s.mem, REG_IDLE_TIMER)
        m1 == IF a # 0 THEN WRITE16(s.mem, REG_IDLE_TIMER, a - 1) ELSE s.mem
        m2 == Wr(m1, REG_TIMER, (Rd(m1, REG_TIMER) + d) % 256)
        s2 == [s EXCEPT !.mem = m2, !.keys = KeyClear(@, WAI_BIT)]
    IN  DispatchFrame(
            [s2 EXCEPT !.mem = Wr(@, REG_TIMER_ENABLE,
                                  BitOr(Rd(@, REG_TIMER_ENABLE), 16))],
            r, GAME_HDR)

\* the head of one iteration of the tick loop, up to its run_emu: the idle
\* timer, the 256 Hz timer advanced by d, then either the WAI resume or the
\* dispatch of the game frame
TickHead(s, r, d) ==
    LET a == READ16(s.mem, REG_IDLE_TIMER)
        m1 == IF a # 0 THEN WRITE16(s.mem, REG_IDLE_TIMER, a - 1) ELSE s.mem
        m2 == Wr(m1, REG_TIMER, (Rd(m1, REG_TIMER) + d) % 256)
        s2 == [s EXCEPT !.mem = m2]
    IN  IF KeyOn(s.keys, WAI_BIT)
        THEN [s2 EXCEPT !.keys = KeyClear(@, WAI_BIT)]
        ELSE DispatchFrame(
                 [s2 EXCEPT !.mem = Wr(@, REG_TIMER_ENABLE,
                                       BitOr(Rd(@, REG_TIMER_ENABLE), 16))],
                 r, GAME_HDR)

\* the tail of one iteration, after its run_emu: the screen cleaned on bit
\* 20, sys_update, then game_event
TickTail(s, q) ==
    LET s1 == IF KeyOn(s.keys, CLEAN_BIT)
              THEN [s EXCEPT !.keys = KeyClear(@, CLEAN_BIT), !.screen = <<>>]
              ELSE s
    IN  PumpEvents(sys_update(s1), q)

\* the loop's condition, "!(sys->keys & 3 << 16)"
\* faulty variant: the loop goes on after bit 16
LoopGoesOn_reset(k) == ~KeyOn(k, RESET_BIT)

LoopGoesOn(k) == ~KeyOn(k, QUIT_BIT) /\ ~KeyOn(k, RESET_BIT)

\* after the loop without bit 16: keys &= 0xff, init_done = 0, memset(s, 0)
ResetCpu(s) ==
    [s EXCEPT !.keys = @ % 256, !.mem = <<>>, !.pc = 0, !.sp = 0,
              !.regs = [a |-> 0, x |-> 0, y |-> 0, flags |-> 0,
                        zflag |-> @.zflag, nflag |-> @.nflag,
                        vflag |-> @.vflag, cflag |-> @.cflag]]

\* the opcodes run_emu lists under "undefined", with BRK and STP
UnexpectedOps ==
    {2, 3, 11, 19, 27, 34, 35, 43, 51, 59, 66, 67, 68, 75, 83, 84, 91, 92,
     98, 99, 107, 115, 123, 130, 131, 139, 147, 155, 163, 171, 179, 187,
     194, 195, 211, 212, 220, 226, 227, 235, 243, 244, 251, 252, 0, 219}

\* "unexpected opcode": the message on stderr, then "goto end"
ExecUnexpected(s, op) ==
    EndRun([s EXCEPT !.diag = <<"unexpected opcode", op>>])

\* case 0xcb: WAI sets bit 19, then "goto end"
ExecWAI(s) == EndRun([s EXCEPT !.keys = KeySet(@, WAI_BIT)])

\* WAI
FwWAI ==
    /\ FwAlive
    /\ Tick
    /\ SetCpu(ExecWAI(CpuState))
    /\ UNCHANGED <<rom_size, rom_mask, save_file, rom_key,
                   init_done, gpos, rom, flash, ncmds>>

\* an opcode of UnexpectedOps
FwUnexpected(op) ==
    /\ FwAlive
    /\ Tick
    /\ SetCpu(ExecUnexpected(CpuState, op))
    /\ UNCHANGED <<rom_size, rom_mask, save_file, rom_key,
                   init_done, gpos, rom, flash, ncmds>>

\* run_game from the label "reset" to the run_emu of the boot frame, which
\* a set init_done skips
GameReset ==
    /\ gpos = "reset"
    /\ err = ""
    /\ gpos' = "boot"
    /\ init_done' = TRUE
    /\ SetCpu(IF init_done THEN CpuState
              ELSE EnterRun(BootFrame(CpuState, rom)))
    /\ UNCHANGED <<rom_size, rom_mask, save_file, rom_key,
                   rom, flash, ticks, ncmds>>

\* from the boot frame's return to the loop: sys_update, sys_sleep, game_event
GameStart(q) ==
    /\ gpos = "boot"
    /\ err = ""
    /\ ~running
    /\ gpos' = "loop"
    /\ SetCpu(PumpEvents(sys_update(CpuState), q))
    /\ UNCHANGED <<rom_size, rom_mask, save_file, rom_key,
                   init_done, rom, flash, ticks, ncmds>>

\* one iteration of the loop up to its run_emu
GameTick(d) ==
    /\ gpos = "loop"
    /\ LoopGoesOn(keys)
    /\ gpos' = "emu"
    /\ SetCpu(EnterRun(TickHead(CpuState, rom, d)))
    /\ UNCHANGED <<rom_size, rom_mask, save_file, rom_key,
                   init_done, rom, flash, ticks, ncmds>>

\* the rest of the iteration, once run_emu has returned
GameTickEnd(q) ==
    /\ gpos = "emu"
    /\ err = ""
    /\ ~running
    /\ gpos' = "loop"
    /\ SetCpu(TickTail(CpuState, q))
    /\ UNCHANGED <<rom_size, rom_mask, save_file, rom_key,
                   init_done, rom, flash, ticks, ncmds>>

\* the loop left: run_game returns on bit 16 and goes to "reset" without it
GameLeave ==
    /\ gpos = "loop"
    /\ ~LoopGoesOn(keys)
    /\ IF KeyOn(keys, QUIT_BIT)
       THEN /\ gpos' = "done"
            /\ SetCpu(CpuState)
            /\ UNCHANGED init_done
       ELSE /\ gpos' = "reset"
            /\ SetCpu(ResetCpu(CpuState))
            /\ init_done' = FALSE
    /\ UNCHANGED <<rom_size, rom_mask, save_file, rom_key,
                   rom, flash, ticks, ncmds>>

-----------------------------------------------------------------------------
(* The game specification: run_game entered by main after a fresh start (no
   save file), with a firmware that powers off, turns the display off,
   waits, returns from its frame or runs into an unexpected opcode *)

Escape == [ev |-> "press", key |-> "escape"]
RPress == [ev |-> "press", key |-> "r"]
RRelease == [ev |-> "release", key |-> "r"]
LeftPress == [ev |-> "press", key |-> "left"]

\* what the window has queued when game_event polls it
EventQueues == {<<>>, <<Escape>>, <<RPress>>, <<RRelease>>, <<LeftPress>>}

\* the 256 Hz ticks the host clock adds between two iterations at 30 fps
TimerSteps == {8, 9}

GameStoreAddrs == {REG_POWER, LCD_CMD}
GameStoreValues == {0, LCD_DISPLAY_OFF}
GameBadOps == {0, 2, 219}

InitGame ==
    /\ rom_size = 4194304
    /\ rom_key = 0
    /\ rom = <<>>
    /\ flash = FlashInit
    /\ ticks = 0
    /\ ncmds = 0
    /\ HostIdle
    /\ keys = 0
    /\ screen = <<>>
    /\ init_done = FALSE
    /\ gpos = "reset"
    /\ diag = <<>>
    /\ mem = <<>>
    /\ pc = 0
    /\ sp = 0
    /\ regs = RegsInit
    /\ depth = 0
    /\ frames = [k \in 0 .. (FRAME_STACK_MAX - 1) |-> [addr |-> 0, size |-> 0]]
    /\ running = FALSE
    /\ err = ""
    /\ wstore = FALSE

NextGame ==
    \/ GameReset
    \/ \E q \in EventQueues : GameStart(q)
    \/ \E d \in TimerSteps : GameTick(d)
    \/ \E q \in EventQueues : GameTickEnd(q)
    \/ GameLeave
    \/ Trap
    \/ \E o \in GameStoreAddrs, t \in GameStoreValues : FwStore(o, t)
    \/ FwJmp(SYS_RET)
    \/ FwWAI
    \/ \E op \in GameBadOps : FwUnexpected(op)

SpecGame == InitGame /\ [][NextGame]_vars

-----------------------------------------------------------------------------
(* The BIOS specification: the firmware, inside the boot frame, calls the
   services of the trap at 0x6000, one call after another, each on the
   screen the calls before it left *)

\* service calls explored in one behaviour, counted in loop iterations: a
\* call and its trap are two
MaxBiosTicks == 3

\* case 0x20: JSR, from the instruction at s.pc
ExecJSR(s, target) ==
    LET o == s.sp
        ret == (s.pc + 2) % 65536
    IN  [s EXCEPT !.sp = (o - 2) % 256,
                  !.mem = Wr(Wr(@, STACK_PAGE + o, ret \div 256),
                             STACK_PAGE + ((o - 1) % 256), ret),
                  !.pc = target]

\* the firmware's call of a service: the argument bytes c.a stored from
\* 0x100 on, LDX #c.x, JSR 0x6000
RECURSIVE StoreArgs(_, _, _)
StoreArgs(m, a, k) ==
    IF k > Len(a) THEN m ELSE StoreArgs(Wr(m, ARG_BASE + k - 1, a[k]), a, k + 1)

CallBios(s, c) ==
    ExecJSR([s EXCEPT !.mem = StoreArgs(@, c.a, 1),
                      !.regs = [@ EXCEPT !.x = c.x, !.zflag = c.x,
                                         !.nflag = c.x]], BIOS_TRAP)

FwBios(c) ==
    /\ FwAlive
    /\ ticks + 1 < MaxBiosTicks
    /\ ticks' = ticks + 1
    /\ SetCpu(CallBios(CpuState, c))
    /\ UNCHANGED <<rom_size, rom_mask, save_file, rom_key,
                   init_done, gpos, rom, flash, ncmds>>

DrawXs == {0, 10, 126, 127, 128, 200, 255}
DrawYs == {0, 20, 126, 127, 128, 159, 160, 200, 255}

\* image_draw_alpha and image_draw: x, y, id, flip, blend
DrawCalls ==
    {[x |-> f, a |-> <<x, y, id, 0, flip, blend>>] :
        f \in {8, 10}, x \in DrawXs, y \in DrawYs, id \in 0 .. 3,
        flip \in 0 .. 3, blend \in {255}}
    \cup {[x |-> 10, a |-> <<x, 20, id, 0, flip, blend>>] :
            x \in {10, 127}, id \in 0 .. 5, flip \in {0, 3, 4},
            blend \in {255, 0, 165}}

\* clear_screen: start, end, color
ClearCalls ==
    {[x |-> 12, a |-> <<start, end, 66>>] :
        start \in {0, 1, 127, 128, 159, 200}, end \in {0, 1, 126, 127, 159, 255}}

\* check_intersect: x1, y1, id1, flip1, x2, y2, id2, flip2
IntersectCalls ==
    {[x |-> 16, a |-> <<x1, y1, id[1], 0, 0, x2, y2, id[2], 0, 0>>] :
        x1 \in {0, 2, 255}, y1 \in {0, 2, 255},
        x2 \in {0, 1, 3, 130, 255}, y2 \in {0, 1, 3, 130, 255},
        id \in {<<0, 1>>, <<1, 2>>, <<3, 1>>}}

\* the other services, and one that does not exist
OtherCalls ==
    {[x |-> f, a |-> <<1, 0, 2, 0, 3>>] : f \in {6, 14, 20, 28, 4}}
    \cup {[x |-> f, a |-> <<1, 120, 65, 3, 4>>] : f \in {36, 38}}

BiosCalls == DrawCalls \cup ClearCalls \cup IntersectCalls \cup OtherCalls

\* what is on the screen when the explored call is made
FirstCalls ==
    {[x |-> 12, a |-> <<0, 0, 0>>],
     [x |-> 12, a |-> <<126, 127, 7>>],
     [x |-> 10, a |-> <<126, 126, 1, 0, 0, 255>>]}

InitBios ==
    /\ rom_size \in RomSizes
    /\ rom_key = 0
    /\ rom = <<>>
    /\ flash = FlashInit
    /\ ticks = 0
    /\ ncmds = 0
    /\ HostIdle
    /\ init_done = TRUE
    /\ gpos = "boot"
    /\ \E s0 \in {NestedCalls(BootDispatch(rom), 1)}, c \in FirstCalls :
         \E s \in {CallBios(s0, c)} :
            /\ mem = s.mem
            /\ pc = s.pc
            /\ sp = s.sp
            /\ regs = s.regs
            /\ depth = s.depth
            /\ frames = s.frames
            /\ running = s.running
            /\ err = s.err
            /\ wstore = s.wstore
            /\ keys = s.keys
            /\ screen = s.screen
            /\ diag = s.diag

NextBios ==
    \/ Trap
    \/ \E c \in BiosCalls : FwBios(c)

SpecBios == InitBios /\ [][NextBios]_vars

-----------------------------------------------------------------------------
(* main: the ROM file, check_rom and the save file.  Before check_rom the
   variable rom holds the bytes of the ROM file that differ from the masked
   image, rom_mask the key the image is masked with and rom_size the length
   of the file. *)

\* "tony"
MAGIC == <<116, 111, 110, 121>>
MAGIC_OFFS == 35
ROM_SIZE_MIN == 65536
ROM_SIZE_MAX == 8388608

\* faulty variant: a table that starts at the last byte is refused too
ResOffsBad_strict(size, res_offs) == size <= res_offs

\* "if (rom_size < res_offs)"
ResOffsBad(size, res_offs) == size < res_offs

\* "for (i = 0; i < rom_size; i++) sys->rom[i] ^= key" on the bytes held
XorAll(r, key) == [a \in DOMAIN r |-> Xor(r[a], key)]

\* check_rom on the ROM (r, mask) of size bytes: the message of its ERR_EXIT,
\* sys->rom_key and the ROM as it leaves them
check_rom(size, r, mask) ==
    LET Keyed(key) ==
            LET Unmasked(r2, mask2) ==
                    LET Checked(res_offs) ==
                            [err |-> IF ResOffsBad(size, res_offs)
                                     THEN "bad resources offset" ELSE "",
                             rom_key |-> key, rom |-> r2, rom_mask |-> mask2]
                    IN  Checked(RomByte(r2, mask2, 0)
                                + 256 * RomByte(r2, mask2, 1)
                                + 65536 * RomByte(r2, mask2, 2))
            IN  IF \E i \in 1 .. 3 :
                      Xor(RomByte(r, mask, MAGIC_OFFS + i), key) # MAGIC[i + 1]
                THEN [err |-> "ROM magic doesn't match", rom_key |-> key,
                      rom |-> r, rom_mask |-> mask]
                ELSE IF key # 0 THEN Unmasked(XorAll(r, key), Xor(mask, key))
                ELSE Unmasked(r, mask)
    IN  IF size < ROM_SIZE_MIN
        THEN [err |-> "ROM is too small", rom_key |-> rom_key, rom |-> r,
              rom_mask |-> mask]
        ELSE Keyed(Xor(RomByte(r, mask, MAGIC_OFFS), MAGIC[1]))

\* loadfile(fn, &rom_size, 8 << 20) returns a buffer
Loaded(size) == size > 0 /\ size <= ROM_SIZE_MAX

\* what check_rom leaves is stored in the system context
SetRom(c) ==
    /\ err' = c.err
    /\ rom_key' = c.rom_key
    /\ rom' = c.rom
    /\ rom_mask' = c.rom_mask

\* main of toumapet.c, from loadfile to check_rom
MainLoadRom ==
    /\ gpos = "main"
    /\ err = ""
    /\ gpos' = "load"
    /\ IF ~Loaded(rom_size)
       THEN err' = "can't load ROM file" /\ UNCHANGED <<rom_key, rom, rom_mask>>
       ELSE IF rom_size \notin RomSizes
       THEN err' = "unexpected ROM size" /\ UNCHANGED <<rom_key, rom, rom_mask>>
       ELSE SetRom(check_rom(rom_size, rom, rom_mask))
    /\ UNCHANGED <<rom_size, save_file, init_done, flash, depth, frames, mem,
                   pc, sp, regs, running, ticks, ncmds, wstore, keys, screen,
                   diag, input_timer, polls, pumps, updates>>

\* main of resextract.c, from loadfile to check_rom
ExtractLoadRom ==
    /\ gpos = "extract"
    /\ err = ""
    /\ gpos' = "extracting"
    /\ IF ~Loaded(rom_size)
       THEN err' = "loading ROM failed" /\ UNCHANGED <<rom_key, rom, rom_mask>>
       ELSE SetRom(check_rom(rom_size, rom, rom_mask))
    /\ UNCHANGED <<rom_size, save_file, init_done, flash, depth, frames, mem,
                   pc, sp, regs, running, ticks, ncmds, wstore, keys, screen,
                   diag, input_timer, polls, pumps, updates>>

MEM_SIZE == 65536

\* fread(buf, 1, want, f) with left bytes of the file unread: the count
Fread(left, want) == IF left < want THEN left ELSE want

\* the bytes of a section of the file that a fread of n bytes stores
ReadBytes(bytes, n) == [a \in {b \in DOMAIN bytes : b < n} |-> bytes[a]]

\* "if (n1 != sizeof(cpu.mem)) ...; if (n2 != 0x10000) ...", after "(void)n3"
SaveSizeBad(n1, n2, n3) == n1 # MEM_SIZE \/ n2 # SAVE_SIZE

\* the save region after the second fread and xor_save: a byte of the file
\* not held in f.save is the masked byte of the region, which xor_save
\* unmasks again
LoadSaveRegion(r, f, n2, key) ==
    LET keep == [a \in {b \in DOMAIN r : b < save_offs} |-> r[a]]
        read == ReadBytes(f.save, n2)
    IN  [a \in {save_offs + j : j \in DOMAIN read} |->
            Xor(read[a - save_offs], key)] @@ keep

\* main, "if (save_fn) { ... }" before sys_init (no --update-time)
MainLoadSave ==
    /\ gpos = "load"
    /\ err = ""
    /\ gpos' = "reset"
    /\ IF ~save_file.named \/ ~save_file.exists
       THEN UNCHANGED <<mem, rom, screen, init_done, err>>
       ELSE LET n1 == Fread(save_file.len, MEM_SIZE)
                n2 == Fread(save_file.len - n1, SAVE_SIZE)
                n3 == Fread(save_file.len - n1 - n2, SCREEN_W * screen_h)
            IN  /\ mem' = ReadBytes(save_file.mem, n1)
                /\ screen' = ReadBytes(save_file.screen, n3)
                /\ IF SaveSizeBad(n1, n2, n3)
                   THEN /\ err' = "unexpected save size"
                        /\ UNCHANGED <<rom, init_done>>
                   ELSE /\ err' = ""
                        /\ init_done' = TRUE
                        /\ rom' = LoadSaveRegion(rom, save_file, n2, rom_key)
    /\ UNCHANGED <<rom_size, rom_mask, save_file, rom_key, flash, depth,
                   frames, pc, sp, regs, running, ticks, ncmds, wstore, keys,
                   diag, input_timer, polls, pumps, updates>>

-----------------------------------------------------------------------------
(* The start-up specification: either program is started on a ROM file, and
   toumapet goes on to its save file *)

\* lengths of the ROM file
RomFileSizes == {0, 32768, 65535, 65536, 4194304, 8388608, 8388609}

\* a key other than k
OtherKey(k) == 255 - k

\* a 24-bit value as three bytes masked with k, at 0..2
MaskedOffs(v, k) ==
    (0 :> Xor(v % 256, k)) @@ (1 :> Xor((v \div 256) % 256, k))
        @@ (2 :> Xor((v \div 65536) % 256, k))

\* the magic masked with k, at 0x23..0x26
MaskedMagic(k) == [a \in 35 .. 38 |-> Xor(MAGIC[a - 34], k)]

\* The bytes of the ROM file that differ from the image masked with k: none,
\* a wrong letter, a first letter masked with another key, a magic masked
\* with another key (alone, and with the table offset), a table that starts
\* at the end of the file, and one that starts behind it.
RomFiles(size, k) ==
    {<<>>,
     (36 :> Xor(112, k)),
     (35 :> Xor(MAGIC[1], OtherKey(k))),
     MaskedMagic(OtherKey(k)),
     MaskedMagic(OtherKey(k)) @@ MaskedOffs(RES_OFFS, OtherKey(k)),
     MaskedOffs(size, k),
     MaskedOffs(size + 1, k)}

\* The files --save names: none, a missing one, and files of several lengths
\* holding an idle timer, a save byte and two pixels.
SaveFiles ==
    {NoSave, [NoSave EXCEPT !.named = TRUE]}
    \cup {[named |-> TRUE, exists |-> TRUE, len |-> n,
           mem |-> (385 :> 5), save |-> (16 :> 200),
           screen |-> (0 :> 3) @@ ((SCREEN_W * screen_h - 1) :> 9)] :
          n \in {0, MEM_SIZE - 1, MEM_SIZE + SAVE_SIZE - 1,
                 MEM_SIZE + SAVE_SIZE,
                 MEM_SIZE + SAVE_SIZE + SCREEN_W * screen_h - 1,
                 MEM_SIZE + SAVE_SIZE + SCREEN_W * screen_h,
                 MEM_SIZE + SAVE_SIZE + SCREEN_W * screen_h + 1}}

InitMain ==
    /\ rom_size \in RomFileSizes
    /\ rom_mask \in RomKeys
    /\ rom \in RomFiles(rom_size, rom_mask)
    /\ rom_key = 0
    /\ save_file \in SaveFiles
    /\ gpos \in {"main", "extract"}
    /\ flash = FlashInit
    /\ ticks = 0
    /\ ncmds = 0
    /\ keys = 0
    /\ screen = <<>>
    /\ init_done = FALSE
    /\ diag = <<>>
    /\ input_timer = 0
    /\ polls = 0
    /\ pumps = 0
    /\ updates = 0
    /\ mem = <<>>
    /\ pc = 0
    /\ sp = 0
    /\ regs = RegsInit
    /\ depth = 0
    /\ frames = [k \in 0 .. (FRAME_STACK_MAX - 1) |-> [addr |-> 0, size |-> 0]]
    /\ running = FALSE
    /\ err = ""
    /\ wstore = FALSE

NextMain ==
    \/ MainLoadRom
    \/ ExtractLoadRom
    \/ MainLoadSave

SpecMain == InitMain /\ [][NextMain]_vars

-----------------------------------------------------------------------------
(* The host specification: run_game entered by main after a fresh start with
   a firmware that polls the buttons at address 0x00 and waits, and main's
   lines after run_game.  The window hands out events whenever game_event
   asks. *)

\* loop iterations of run_emu explored in one run of the host specification
MaxHostTicks == 22

HostTick == ticks < MaxHostTicks /\ ticks' = ticks + 1

\* LDA 0x00
HostPoll(q) ==
    /\ FwAlive
    /\ HostTick
    /\ SetCpu(ExecLDAKeys(CpuState, q))
    /\ UNCHANGED <<rom_size, rom_mask, save_file, rom_key, init_done, gpos,
                   rom, flash, ncmds>>

\* WAI
HostWAI ==
    /\ FwAlive
    /\ HostTick
    /\ SetCpu(ExecWAI(CpuState))
    /\ UNCHANGED <<rom_size, rom_mask, save_file, rom_key, init_done, gpos,
                   rom, flash, ncmds>>

\* the save region of sys->rom after xor_save, as the bytes of the file
SaveRegion(r, key) ==
    [j \in {a - save_offs : a \in {b \in DOMAIN r : b >= save_offs}} |->
        Xor(r[save_offs + j], key)]

\* main after run_game: "if (save_fn) { ... }" with an fopen that succeeds
\* (ok) or fails, then sys_close.  xor_save masks the save region of
\* sys->rom in place; nothing reads the buffer afterwards.
MainSave(ok) ==
    /\ gpos = "done"
    /\ err = ""
    /\ gpos' = "exit"
    /\ save_file' =
          IF save_file.named /\ ok
          THEN [named |-> TRUE, exists |-> TRUE,
                len |-> MEM_SIZE + (rom_size - save_offs)
                          + SCREEN_W * screen_h,
                mem |-> mem, save |-> SaveRegion(rom, rom_key),
                screen |-> ReadBytes(screen, SCREEN_W * screen_h)]
          ELSE save_file
    /\ UNCHANGED <<rom_size, rom_mask, rom_key, rom, flash, depth, frames,
                   mem, pc, sp, regs, running, ticks, ncmds, wstore, keys,
                   screen, init_done, diag, err, input_timer, polls, pumps,
                   updates>>

HostQueues == {<<>>, <<Escape>>, <<RPress>>, <<LeftPress>>}

InitHost ==
    /\ rom_size = 4194304
    /\ rom_key = 0
    /\ rom_mask = 0
    /\ rom = <<>>
    /\ save_file \in {NoSave, [NoSave EXCEPT !.named = TRUE]}
    /\ flash = FlashInit
    /\ ticks = 0
    /\ ncmds = 0
    /\ keys = 0
    /\ screen = <<>>
    /\ init_done = FALSE
    /\ gpos = "reset"
    /\ diag = <<>>
    /\ input_timer = 0
    /\ polls = 0
    /\ pumps = 0
    /\ updates = 0
    /\ mem = <<>>
    /\ pc = 0
    /\ sp = 0
    /\ regs = RegsInit
    /\ depth = 0
    /\ frames = [k \in 0 .. (FRAME_STACK_MAX - 1) |-> [addr |-> 0, size |-> 0]]
    /\ running = FALSE
    /\ err = ""
    /\ wstore = FALSE

NextHost ==
    \/ GameReset
    \/ \E q \in HostQueues : GameStart(q)
    \/ GameTick(8)
    \/ \E q \in HostQueues : GameTickEnd(q)
    \/ GameLeave
    \/ Trap
    \/ \E q \in HostQueues : HostPoll(q)
    \/ HostWAI
    \/ \E ok \in BOOLEAN : MainSave(ok)

SpecHost == InitHost /\ [][NextHost]_vars

-----------------------------------------------------------------------------
(* The trap specification: a firmware that loads X and an argument block and
   jumps to subroutines at addresses from 0x6000 up *)

\* calls and trap steps explored in one run of the trap specification
MaxTrapTicks == 4

\* the identifiers the switch on s->x has cases for
BiosIds == {6, 8, 10, 12, 14, 16, 20, 22, 24, 26, 28, 30, 36, 38, 44}

TrapIds == 0 .. 48 \cup {222, 255}

\* 0x6000, 0x6003, 0x6006, 0x600c, 0x601c, 0x6052, 0x60de, 0x6100, 0x610c,
\* 0x6fff, 0x7000, 0x7001
TrapTargets ==
    {24576, 24579, 24582, 24588, 24604, 24658, 24798, 24832, 24844, 28671,
     28672, 28673}

TrapArgs == {<<0, 1, 2, 0, 3>>, <<1, 0, 2, 0, 3>>}

\* LDX #x, the argument block stored, JSR target
FwCallAt(x, a, target) ==
    /\ FwAlive
    /\ ticks + 1 < MaxTrapTicks
    /\ ticks' = ticks + 1
    /\ SetCpu(ExecJSR([CpuState EXCEPT
                         !.mem = StoreArgs(@, a, 1),
                         !.regs = [@ EXCEPT !.x = x, !.zflag = x,
                                            !.nflag = x]], target))
    /\ UNCHANGED <<rom_size, rom_mask, save_file, rom_key,
                   init_done, gpos, rom, flash, ncmds>>

InitTraps ==
    /\ rom_size \in RomSizes
    /\ rom_key = 0
    /\ rom = <<>>
    /\ flash = FlashInit
    /\ ticks = 0
    /\ ncmds = 0
    /\ HostIdle
    /\ init_done = TRUE
    /\ gpos = "boot"
    /\ \E s \in {NestedCalls(BootDispatch(rom), 1)} :
            /\ mem = s.mem
            /\ pc = s.pc
            /\ sp = s.sp
            /\ regs = s.regs
            /\ depth = s.depth
            /\ frames = s.frames
            /\ running = s.running
            /\ err = s.err
            /\ wstore = s.wstore
            /\ keys = s.keys
            /\ screen = s.screen
            /\ diag = s.diag

NextTraps ==
    \/ Trap
    \/ \E x \in TrapIds, a \in TrapArgs, target \in TrapTargets :
          FwCallAt(x, a, target)

SpecTraps == InitTraps /\ [][NextTraps]_vars

-----------------------------------------------------------------------------
(* run_emu: the stack instructions *)

OP_PHP == 8
OP_PLP == 40
OP_JSR == 32
OP_RTI == 64
OP_RTS == 96
OP_WAI == 203

\* PHA, PHY, PHX and PLA, PLY, PLX with the register "p" points to
PushOps == (72 :> "a") @@ (90 :> "y") @@ (218 :> "x")
PullOps == (104 :> "a") @@ (122 :> "y") @@ (250 :> "x")

\* "op = s->mem[pc++]" of an instruction without operand
Fetch(s) == [s EXCEPT !.pc = (@ + 1) % 65536]

\* op_push: o = s->sp; s->sp = o - 1; s->mem[0x100 + o] = t
op_push(s, t) ==
    [s EXCEPT !.sp = (s.sp - 1) % 256, !.mem = Wr(@, STACK_PAGE + s.sp, t)]

\* faulty variant: the pulled byte is read at 0x100 + sp + 1 without the mask
PullAddr_nowrap(o) == STACK_PAGE + o

\* 0x100 + (o & 0xff), o being the int s->sp + n
PullAddr(o) == STACK_PAGE + (o % 256)

\* case 0x08: PHP
ExecPHP(s) == op_push(Fetch(s), PACK_FLAGS(s.regs))

\* case 0x48, 0x5a, 0xda: PHA, PHY, PHX
ExecPushReg(s, reg) == op_push(Fetch(s), s.regs[reg])

\* faulty variant: PLP leaves the internal carry as it was
ExecPLP_keepCarry(s) ==
    LET o == s.sp + 1
        t == Rd(s.mem, PullAddr(o))
    IN  [Fetch(s) EXCEPT
           !.sp = o % 256,
           !.regs = [UNPACK_FLAGS([@ EXCEPT !.flags = t], t)
                       EXCEPT !.cflag = s.regs.cflag]]

\* case 0x28: PLP
ExecPLP(s) ==
    LET o == s.sp + 1
        t == Rd(s.mem, PullAddr(o))
    IN  [Fetch(s) EXCEPT !.sp = o % 256,
                         !.regs = UNPACK_FLAGS([@ EXCEPT !.flags = t], t)]

\* case 0x68, 0x7a, 0xfa: PLA, PLY, PLX
ExecPullReg(s, reg) ==
    LET o == s.sp + 1
    IN  [Fetch(s) EXCEPT !.sp = o % 256,
                         !.regs = [@ EXCEPT ![reg] = Rd(s.mem, PullAddr(o))]]

\* case 0x40: RTI
ExecRTI(s) ==
    LET o == s.sp
        t == Rd(s.mem, PullAddr(o + 1))
    IN  [s EXCEPT !.sp = (o + 3) % 256,
                  !.regs = UNPACK_FLAGS([@ EXCEPT !.flags = t], t),
                  !.pc = Rd(s.mem, PullAddr(o + 2))
                           + 256 * Rd(s.mem, PullAddr(o + 3))]

StepPHP ==
    /\ FetchIs(OP_PHP)
    /\ SetCpu(ExecPHP(CpuState))
    /\ UNCHANGED <<rom_size, rom_mask, save_file, rom_key,
                   init_done, gpos, rom, flash, ticks, ncmds>>

StepPLP ==
    /\ FetchIs(OP_PLP)
    /\ SetCpu(ExecPLP(CpuState))
    /\ UNCHANGED <<rom_size, rom_mask, save_file, rom_key,
                   init_done, gpos, rom, flash, ticks, ncmds>>

StepPushReg ==
    /\ running /\ err = "" /\ pc < TRAP_BASE
    /\ Rd(mem, pc) \in DOMAIN PushOps
    /\ SetCpu(ExecPushReg(CpuState, PushOps[Rd(mem, pc)]))
    /\ UNCHANGED <<rom_size, rom_mask, save_file, rom_key,
                   init_done, gpos, rom, flash, ticks, ncmds>>

StepPullReg ==
    /\ running /\ err = "" /\ pc < TRAP_BASE
    /\ Rd(mem, pc) \in DOMAIN PullOps
    /\ SetCpu(ExecPullReg(CpuState, PullOps[Rd(mem, pc)]))
    /\ UNCHANGED <<rom_size, rom_mask, save_file, rom_key,
                   init_done, gpos, rom, flash, ticks, ncmds>>

\* case 0x20: JSR with the target in the two operand bytes
StepJSR ==
    /\ FetchIs(OP_JSR)
    /\ SetCpu(ExecJSR(CpuState, READ16(mem, (pc + 1) % 65536)))
    /\ UNCHANGED <<rom_size, rom_mask, save_file, rom_key,
                   init_done, gpos, rom, flash, ticks, ncmds>>

StepRTS ==
    /\ FetchIs(OP_RTS)
    /\ SetCpu(ExecRTS(CpuState))
    /\ UNCHANGED <<rom_size, rom_mask, save_file, rom_key,
                   init_done, gpos, rom, flash, ticks, ncmds>>

StepRTI ==
    /\ FetchIs(OP_RTI)
    /\ SetCpu(ExecRTI(CpuState))
    /\ UNCHANGED <<rom_size, rom_mask, save_file, rom_key,
                   init_done, gpos, rom, flash, ticks, ncmds>>

\* case 0xcb: WAI, with s->pc left behind the opcode
StepWAI ==
    /\ FetchIs(OP_WAI)
    /\ SetCpu(ExecWAI(Fetch(CpuState)))
    /\ UNCHANGED <<rom_size, rom_mask, save_file, rom_key,
                   init_done, gpos, rom, flash, ticks, ncmds>>

-----------------------------------------------------------------------------
(* The stack specification: short programs of stack instructions at 0x300,
   started with every P register and with SP at both ends of the stack page;
   WAI leaves run_emu and the next tick of run_game enters it again *)

\* PHP PLP; PHA PLA; PHX PLX; PHY PLY; PLP; PLA; PHA PLP; PHP PLA;
\* JSR 0x0304, NOP, RTS; RTS; RTI; JSR 0x60de; PHP WAI PLP; WAI PHA
StackPrograms ==
    {<<8, 40>>, <<72, 104>>, <<218, 250>>, <<90, 122>>, <<40>>, <<104>>,
     <<72, 40>>, <<8, 104>>, <<32, 4, 3, 234, 96>>, <<96>>, <<64>>,
     <<32, 222, 96>>, <<8, 203, 40>>, <<203, 72>>}

StackSps == {0, 1, 2, 125, 127, 253, 254, 255}

\* the bytes around both ends of the stack page, all different
StackCells == 254 .. 259 \cup 509 .. 514

StackFill(m) ==
    [a \in (DOMAIN m) \cup StackCells |->
        IF a \in StackCells THEN (a * 7 + 13) % 256 ELSE m[a]]

InitStack ==
    /\ rom_size = 4194304
    /\ rom_key = 0
    /\ rom = <<>>
    /\ flash = FlashInit
    /\ ticks = 0
    /\ ncmds = 0
    /\ HostIdle
    /\ keys = 0
    /\ screen = <<>>
    /\ init_done = TRUE
    /\ gpos = "emu"
    /\ diag = <<>>
    /\ \E s \in {NestedCalls(BootDispatch(rom), 1)}, code \in StackPrograms,
          P \in Byte, S \in StackSps, A \in {1, 255} :
        /\ mem = LoadProgram(StackFill(s.mem), code)
        /\ pc = FRAME_BASE
        /\ sp = S
        /\ regs = UNPACK_FLAGS([s.regs EXCEPT !.a = A, !.x = A - 1,
                                              !.flags = P], P)
        /\ depth = s.depth /\ frames = s.frames
        /\ running = s.running /\ err = s.err /\ wstore = TRUE

NextStack ==
    \/ StepPHP
    \/ StepPLP
    \/ StepPushReg
    \/ StepPullReg
    \/ StepJSR
    \/ StepRTS
    \/ StepRTI
    \/ StepWAI
    \/ Trap
    \/ GameTickEnd(<<>>)
    \/ GameTick(8)

SpecStack == InitStack /\ [][NextStack]_vars

-----------------------------------------------------------------------------
(* The window specification: ROM calls, tail calls and returns with frames
   of the largest size the call accepts, at the start and at the very end
   of the ROM *)

\* the largest frame, 0x27f words; the same frame ending with the ROM's
\* last byte; a frame of 0x280 words; a small frame past the ROM's end and
\* one inside
WindowArgs ==
    {<<ROM_READ16(rom, 3), (FRAME_SIZE_LIMIT \div 2) - 1>>,
     <<rom_size - FRAME_SIZE_LIMIT + 2, (FRAME_SIZE_LIMIT \div 2) - 1>>,
     <<ROM_READ16(rom, 3), FRAME_SIZE_LIMIT \div 2>>,
     <<rom_size - 6, 4>>,
     <<rom_size - 16, 8>>}

NextWindow ==
    \/ Trap
    \/ \E c \in WindowArgs : FwSetArgs(c)
    \/ \E target \in JumpTargets : FwJmp(target)
    \/ FwRTS

SpecWindow == InitFrames /\ [][NextWindow]_vars

-----------------------------------------------------------------------------
(* Properties of the paging traps *)

\* the bytes at [0x300, 0x300 + fr.size) of m are ROM[fr.addr, fr.addr + fr.size)
WindowMatches(m, fr) ==
    \A i \in 0 .. (fr.size - 1) : Rd(m, FRAME_BASE + i) = RomAt(rom, fr.addr + i)

ArgAddr == READ24(mem, ARG_ADDR)
ArgSize == 2 * READ16(mem, ARG_SIZE)
ArgsValid == ArgSize < FRAME_SIZE_LIMIT /\ ArgAddr + ArgSize <= rom_size
AtTrap(p) == running /\ err = "" /\ pc = p

StackPageSame ==
    \A a \in STACK_PAGE .. (STACK_PAGE + 255) : Rd(mem', a) = Rd(mem, a)

\* C1: with a non-empty frame stack and no CPU store into the window since the
\* last call, tail call or return, the bytes at [0x300, 0x300 + top.size) are
\* ROM[top.addr, top.addr + top.size) for the top frame.
C1_WindowIsTopFrame ==
    (depth > 0 /\ ~wstore) => WindowMatches(mem, frames[depth - 1])

\* a state after a call, a tail call (which put the 16-byte frame at the
\* bottom) and a return from a nested call (whose entry is still above the top)
C1_Witness ==
    /\ depth = 1
    /\ ~wstore
    /\ err = ""
    /\ frames[0].size = 16
    /\ frames[1].size = 8
    /\ pc < TRAP_BASE

\* C2: a normal ROM call at 0x60DE with valid arguments and room on the frame
\* stack pushes one frame, decreases SP by 2 modulo 256, stores 0x6F at
\* 0x100 + SP_old and 0xFF at 0x100 + ((SP_old - 1) mod 256), copies size
\* bytes of ROM to 0x300 and sets PC = 0x300.
C2_CallEffect ==
    [][(AtTrap(ROM_CALL) /\ ArgsValid /\ depth < FRAME_STACK_MAX) =>
          /\ err' = ""
          /\ depth' = depth + 1
          /\ frames' = [frames EXCEPT ![depth] = [addr |-> ArgAddr, size |-> ArgSize]]
          /\ sp' = (sp - 2) % 256
          /\ Rd(mem', STACK_PAGE + sp) = 111
          /\ Rd(mem', STACK_PAGE + ((sp - 1) % 256)) = 255
          /\ WindowMatches(mem', [addr |-> ArgAddr, size |-> ArgSize])
          /\ pc' = FRAME_BASE]_vars

\* a call made with SP = 0 has acted: the return address wraps around the
\* stack page (0x6F at 0x100, 0xFF at 0x1FF) and SP is 0xFE
C2_Witness ==
    /\ err = ""
    /\ pc = FRAME_BASE
    /\ depth >= 1
    /\ sp = 254
    /\ Rd(mem, STACK_PAGE) = 111
    /\ Rd(mem, STACK_PAGE + 255) = 255

\* C3: a return at 0x7000 with depth >= 2 pops the top frame and re-copies
\* the window from ROM for the new top, whatever was stored in the window; a
\* return with depth 1 empties the stack and ends run_emu without copying.
C3_ReturnRestoresWindow ==
    [][(AtTrap(SYS_RET) /\ depth >= 1) =>
          IF depth >= 2
          THEN /\ depth' = depth - 1
               /\ frames' = frames
               /\ running'
               /\ WindowMatches(mem', frames[depth - 2])
          ELSE /\ depth' = 0
               /\ ~running'
               /\ mem' = mem]_vars

\* a return is about to act at depth >= 2 on a window whose first byte a CPU
\* store has set to a value the caller's ROM does not hold
C3_Witness ==
    /\ AtTrap(SYS_RET)
    /\ ticks < MaxTicks
    /\ depth >= 2
    /\ wstore
    /\ Rd(mem, FRAME_BASE) = 90
    /\ RomAt(rom, frames[depth - 2].addr) # 90

\* C4: the frame depth never exceeds 16, and a tail call at any depth from 1
\* to 16 with a valid address and size succeeds and leaves the depth unchanged.
C4_TailCallAtAnyDepth ==
    /\ [](depth <= FRAME_STACK_MAX)
    /\ [][(AtTrap(ROM_TAIL_CALL) /\ ArgsValid /\ depth >= 1
           /\ depth <= FRAME_STACK_MAX) =>
             (err' = "" /\ depth' = depth)]_vars

PagingFault ==
    \/ (pc = ROM_CALL \/ pc = ROM_TAIL_CALL) /\ ArgSize >= FRAME_SIZE_LIMIT
    \/ (pc = ROM_CALL \/ pc = ROM_TAIL_CALL) /\ ArgAddr + ArgSize > rom_size
    \/ pc = ROM_CALL /\ depth = FRAME_STACK_MAX
    \/ pc = ROM_TAIL_CALL /\ depth = 0
    \/ pc = SYS_RET /\ depth = 0

\* C6: a call or tail call with size >= 0x500 or addr + size > rom_size, a
\* normal call at depth 16, a tail call at depth 0 and a return at depth 0 end
\* in the fatal state and modify neither the frame stack, the window nor the
\* 6502 stack.
C6_PagingFaultsAreFatal ==
    [][(running /\ err = "" /\ PagingFault) =>
          /\ err' # ""
          /\ depth' = depth
          /\ frames' = frames
          /\ mem' = mem
          /\ sp' = sp]_vars

\* a normal call made at depth 16 has ended in the fatal state
C6_Witness ==
    /\ err = "call stack overflow"
    /\ pc = ROM_CALL
    /\ depth = FRAME_STACK_MAX

-----------------------------------------------------------------------------
(* Properties of the flash *)

\* bit 1 of flash.flags
WriteEnableBit == BitAt(flash.flags, 1)

\* the step is the store to 0x02 that repeats the last bit of a message of
\* the FLASH_CMD2 stage, after which flash_emu acts on the message
LastHalfBit ==
    /\ running /\ err = ""
    /\ flash.state = FLASH_CMD2
    /\ flash.narg = 1
    /\ Rd(mem', REG_FLASH) = 3 + 4 * (flash.args[0] % 2)

\* the step completes the 256th data byte of a Page Program
PageProgramEnds ==
    /\ LastHalfBit
    /\ flash.cmd = CMD_PAGE_PROGRAM
    /\ flash.addr # ADDR_NONE
    /\ flash.addr % PAGE_SIZE = PAGE_SIZE - 1
    /\ WriteEnableBit = 1

\* the step completes the address of a Page Program or a Sector Erase
AddressEnds ==
    /\ LastHalfBit
    /\ flash.cmd = CMD_PAGE_PROGRAM \/ flash.cmd = CMD_SECTOR_ERASE
    /\ flash.addr = ADDR_NONE

\* C7 as the code has it: after Write Enable, a Page Program streaming b0..b255
\* to an aligned page P of the save region leaves rom[P + i] = bi XOR rom_key
\* for every i in 0..255, and the flash state OFF.
C7_PageProgramStoresMasked ==
    [][PageProgramEnds =>
          LET P == flash.addr - (PAGE_SIZE - 1)
          IN  /\ \A i \in 0 .. (PAGE_SIZE - 1) :
                    RomAt(rom', P + i) = Xor(ProgData(P + i), rom_key)
              /\ flash'.state = FLASH_OFF
              /\ err' = ""]_vars

\* C7: after Write Enable, a Page Program streaming b0..b255 to an aligned
\* page P of the save region leaves rom[P + i] = bi for every i in 0..255, and
\* the flash state OFF.
C7_PageProgramStoresPlain ==
    [][PageProgramEnds =>
          LET P == flash.addr - (PAGE_SIZE - 1)
          IN  /\ \A i \in 0 .. (PAGE_SIZE - 1) :
                    RomAt(rom', P + i) = ProgData(P + i)
              /\ flash'.state = FLASH_OFF
              /\ err' = ""]_vars

\* the first page of the save region has been programmed to its last byte
\* under the key 0x5a
C7_Witness ==
    /\ err = ""
    /\ rom_key = 90
    /\ WriteEnableBit = 1
    /\ flash.state = FLASH_OFF
    /\ flash.cmd = CMD_PAGE_PROGRAM
    /\ flash.addr = save_offs + PAGE_SIZE
    /\ RomAt(rom, save_offs) = Xor(ProgData(save_offs), 90)
    /\ RomAt(rom, save_offs + 255) = Xor(ProgData(save_offs + 255), 90)

\* C8: while the write-enable bit is clear no store to 0x02 or 0x12 changes a
\* ROM byte, and a Page Program or Sector Erase whose address is accepted
\* goes to OFF.
C8_NoWriteWithoutEnable ==
    [][WriteEnableBit = 0 =>
          /\ rom' = rom
          /\ (AddressEnds /\ err' = "") => flash'.state = FLASH_OFF]_vars

\* a Page Program to the first page of the save region has been given its
\* whole address with the write-enable bit clear
C8_Witness ==
    /\ err = ""
    /\ WriteEnableBit = 0
    /\ flash.state = FLASH_OFF
    /\ flash.cmd = CMD_PAGE_PROGRAM
    /\ flash.addr = save_offs
    /\ Rd(mem, REG_FLASH) = 3
    /\ rom = <<>>

\* C9: every ROM byte below save_offs has the value it had after unmasking.
C9_RomBelowSaveRegionFixed ==
    \A a \in DOMAIN rom : a < save_offs => rom[a] = RomImage(a)

\* a Page Program to the page just below the save region has been refused
\* with the write-enable bit set
C9_Witness ==
    /\ err = "unexpected program address"
    /\ WriteEnableBit = 1
    /\ flash.addr = save_offs - PAGE_SIZE

\* C10: a Sector Erase whose address is 4 KiB-aligned and in
\* [save_offs, rom_size) sets, with write-enable set, exactly the 4096 bytes
\* from that address to 0xFF XOR rom_key and goes to OFF; with any other
\* address it is fatal and changes no ROM byte.
C10_SectorErase ==
    [][(AddressEnds /\ flash.cmd = CMD_SECTOR_ERASE) =>
          LET addr == FlashArgAddr(flash)
              sector == addr .. (addr + SECTOR_SIZE - 1)
          IN  IF addr % SECTOR_SIZE = 0 /\ addr >= save_offs /\ addr < rom_size
              THEN WriteEnableBit = 1 =>
                     /\ \A a \in sector : RomAt(rom', a) = Xor(255, rom_key)
                     /\ \A a \in ((DOMAIN rom) \cup (DOMAIN rom')) \ sector :
                           RomAt(rom', a) = RomAt(rom, a)
                     /\ flash'.state = FLASH_OFF
                     /\ err' = ""
              ELSE err' # "" /\ rom' = rom]_vars

\* the last sector of the ROM has been erased under the key 0x5a
C10_Witness ==
    /\ err = ""
    /\ rom_key = 90
    /\ flash.state = FLASH_OFF
    /\ flash.cmd = CMD_SECTOR_ERASE
    /\ (rom_size - SECTOR_SIZE) \in DOMAIN rom
    /\ rom[rom_size - SECTOR_SIZE] = 165
    /\ rom[rom_size - 1] = 165

\* C11: a store of any byte to 0x02 in the OFF state changes neither the
\* flash machine nor the ROM, and a store of a byte with bit 3 set in any
\* other state sets the state OFF and changes nothing else.
C11_OffIgnoresAndBit3Aborts ==
    \A d \in Byte :
        LET x == flash_emu(flash, rom, d)
        IN  IF flash.state = FLASH_OFF
            THEN x.flash = flash /\ x.rom = rom /\ x.err = ""
            ELSE BitAt(d, 3) = 1 =>
                   /\ x.flash = [flash EXCEPT !.state = FLASH_OFF]
                   /\ x.rom = rom
                   /\ x.err = ""

\* a store of 8 has broken a command byte off half way: the state is OFF and
\* the bits received so far are still counted in narg
C11_Witness ==
    /\ err = ""
    /\ flash.state = FLASH_OFF
    /\ Rd(mem, REG_FLASH) = 8
    /\ flash.narg = 9
    /\ flash.cmd = 0

\* C12: a store to 0x12 sets the flash state OFF when the value stored is not
\* 0 and READY when it is 0, whatever the state was; in READY a store of 0 to
\* 0x02 goes to CMD with narg = 16 and any other byte without bit 3 leaves
\* the flash machine as it is.
C12_EnableRegister ==
    /\ [][Rd(mem', REG_FLASH_ENABLE) # Rd(mem, REG_FLASH_ENABLE) =>
            flash'.state = IF Rd(mem', REG_FLASH_ENABLE) # 0
                           THEN FLASH_OFF ELSE FLASH_READY]_vars
    /\ [](flash.state = FLASH_READY =>
            \A d \in Byte :
                BitAt(d, 3) = 0 =>
                    flash_emu(flash, rom, d).flash =
                        IF d = 0
                        THEN [flash EXCEPT !.state = FLASH_CMD, !.narg = 16]
                        ELSE flash)

-----------------------------------------------------------------------------
(* Properties of the arithmetic *)

\* W65C02S ADC: accumulator and carry from the nibble-wise decimal sum, V from
\* the signed sum before the 0x60 correction, N and Z from the accumulator
RefADC(A, M, C, D) ==
    IF D = 1
    THEN LET al0 == (A % 16) + (M % 16) + C
             al == IF al0 >= 10 THEN ((al0 + 6) % 16) + 16 ELSE al0
             hi == (A - (A % 16)) + (M - (M % 16)) + al
             sg == Signed8(A - (A % 16)) + Signed8(M - (M % 16)) + al
             r == IF hi >= 160 THEN hi + 96 ELSE hi
         IN  [a |-> r % 256, n |-> BitAt(r % 256, 7),
              v |-> IF sg < -128 \/ sg > 127 THEN 1 ELSE 0,
              z |-> IF r % 256 = 0 THEN 1 ELSE 0,
              c |-> IF r >= 256 THEN 1 ELSE 0]
    ELSE LET r == A + M + C
             sg == Signed8(A) + Signed8(M) + C
         IN  [a |-> r % 256, n |-> BitAt(r % 256, 7),
              v |-> IF sg < -128 \/ sg > 127 THEN 1 ELSE 0,
              z |-> IF r % 256 = 0 THEN 1 ELSE 0,
              c |-> IF r >= 256 THEN 1 ELSE 0]

\* W65C02S SBC: C and V as in binary mode; in decimal mode 0x60 is subtracted
\* from the binary difference when it is negative and 6 when the low nibbles
\* borrow; N and Z from the accumulator
RefSBC(A, M, C, D) ==
    LET bin == A - M + C - 1
        sg == Signed8(A) - Signed8(M) + C - 1
        al == (A % 16) - (M % 16) + C - 1
        r1 == IF D = 1 /\ bin < 0 THEN bin - 96 ELSE bin
        r == IF D = 1 /\ al < 0 THEN r1 - 6 ELSE r1
    IN  [a |-> r % 256, n |-> BitAt(r % 256, 7),
         v |-> IF sg < -128 \/ sg > 127 THEN 1 ELSE 0,
         z |-> IF r % 256 = 0 THEN 1 ELSE 0,
         c |-> IF bin >= 0 THEN 1 ELSE 0]

\* the accumulator and the N, V, Z, C bits of the P register PHP would push
Outcome(r) ==
    LET P == PACK_FLAGS(r)
    IN  [a |-> r.a, n |-> BitAt(P, 7), v |-> BitAt(P, 6), z |-> BitAt(P, 1),
         c |-> BitAt(P, 0)]

\* C13: for every accumulator, operand and carry, in binary and in decimal
\* mode, ADC and SBC leave the accumulator and the N, V, Z, C flags of a
\* W65C02S.
C13_AdcSbcMatchReference ==
    [][LET M == Rd(mem, (pc + 1) % 65536)
           C == BitAt(regs.cflag, 8)
           D == BitAt(regs.flags, 3)
       IN  /\ FetchIs(OP_ADC_IMM) => Outcome(regs') = RefADC(regs.a, M, C, D)
           /\ FetchIs(OP_SBC_IMM) => Outcome(regs') = RefSBC(regs.a, M, C, D)]_vars

-----------------------------------------------------------------------------
(* Properties of the branches *)

\* the flag predicates of the branches on a P register
FlagPredicate(P, op) ==
    CASE op = 16 -> BitAt(P, 7) = 0
      [] op = 48 -> BitAt(P, 7) = 1
      [] op = 80 -> BitAt(P, 6) = 0
      [] op = 112 -> BitAt(P, 6) = 1
      [] op = 128 -> TRUE
      [] op = 144 -> BitAt(P, 0) = 0
      [] op = 176 -> BitAt(P, 0) = 1
      [] op = 208 -> BitAt(P, 1) = 0
      [] op = 240 -> BitAt(P, 1) = 1

\* C14: a conditional branch is taken exactly when its predicate holds on the
\* P register (BBRn / BBSn: when bit n of the zero-page operand is 0 / 1); a
\* taken branch adds the signed displacement to the PC after the operand, and
\* a branch not taken continues after the operand.
C14_BranchIffPredicate ==
    [][LET op == Rd(mem, pc)
       IN  /\ (running /\ err = "" /\ op \in RelBranchOps) =>
                pc' = IF FlagPredicate(PACK_FLAGS(regs), op)
                      THEN (pc + 2 + Signed8(Rd(mem, pc + 1))) % 65536
                      ELSE pc + 2
           /\ (running /\ err = "" /\ op \in BitBranchOps) =>
                pc' = IF BitAt(Rd(mem, Rd(mem, pc + 1)), (op \div 16) % 8)
                         = op \div 128
                      THEN (pc + 3 + Signed8(Rd(mem, pc + 2))) % 65536
                      ELSE pc + 3]_vars

-----------------------------------------------------------------------------
(* Properties of run_game *)

\* the step is the store of 0 to 0x0000: bit 18 of sys->keys comes on
PowerOffStep == ~KeyOn(keys, POWEROFF_BIT) /\ KeyOn(keys', POWEROFF_BIT)

\* C15: a store of 0 to address 0x0000 makes the current run_emu return at
\* the end of that instruction with bit 18 of keys set, and the game loop of
\* run_game exits after the current tick: once the tick is over with bit 18
\* set, the loop's next step leaves the loop instead of starting a tick.
C15_PowerOffLeavesLoop ==
    [][/\ PowerOffStep => running /\ ~running' /\ gpos' = gpos
       /\ (gpos = "loop" /\ KeyOn(keys, POWEROFF_BIT))
              => gpos' \in {"reset", "done"}]_vars

\* C16: executing STP (0xDB), BRK (0x00) or an undefined opcode is fatal: once
\* run_emu has printed its diagnostic for such an opcode the process is in
\* the error-exit state (exit status 1), and no further firmware instruction
\* and no further step of the game loop is executed.
C16_UnexpectedOpcodeIsFatal ==
    /\ [](diag # <<>> => err # "")
    /\ [][diag # <<>> => UNCHANGED <<ticks, gpos>>]_vars

-----------------------------------------------------------------------------
(* Properties of the BIOS services *)

\* the step is the trap of service f
ServiceStep(f) == pc = BIOS_TRAP /\ running /\ err = "" /\ regs.x = f /\ pc' # pc

\* the framebuffer bytes a step stores to with a visible effect: the byte is
\* new in the sparse screen or its value changes
Changed == {k \in DOMAIN screen' : k \notin DOMAIN screen \/ screen'[k] # screen[k]}

\* the arguments of image_draw as the firmware stored them
ArgX == Rd(mem, ARG_BASE)
ArgY == Rd(mem, ARG_BASE + 1)
ArgId == READ16(mem, ARG_BASE + 2)
ArgFlip == Rd(mem, ARG_BASE + 4)
ArgBlend == Rd(mem, ARG_BASE + 5)

\* width and height of resource id, and whether its RLE rows are well formed
ImgW(id) == ResImages[id + 1][1]
ImgH(id) == ResImages[id + 1][3]
WellFormedIds == 0 .. 3

\* the placement as signed numbers
PlaceX == IF ArgX >= SCREEN_W THEN ArgX - 256 ELSE ArgX
PlaceY == IF ArgY >= screen_h THEN ArgY - 256 ELSE ArgY

\* column c, row r of the screen lies in the image's rectangle
InClipCols(c) == 0 <= c /\ c < SCREEN_W /\ PlaceX <= c /\ c < PlaceX + ImgW(ArgId)
InClipRows(r) == 0 <= r /\ r < screen_h /\ PlaceY <= r /\ r < PlaceY + ImgH(ArgId)

\* C17: for a well-formed RLE image, a flip in 0..3 and placement bytes x, y
\* in 0..255 (values >= SCREEN_W resp. >= screen_h read as signed 8-bit),
\* draw_image writes only framebuffer indices in [0, SCREEN_W * screen_h),
\* and every written pixel lies in the rows and columns of the clipped
\* rectangle.
C17_DrawStaysInClippedRect ==
    [][((ServiceStep(8) \/ ServiceStep(10)) /\ ArgId \in WellFormedIds
            /\ ArgFlip \in 0 .. 3)
       => \A k \in Changed :
            /\ k >= 0 /\ k < SCREEN_W * screen_h
            /\ InClipCols(k % SCREEN_W)
            /\ InClipRows(k \div SCREEN_W)]_vars

\* an image wider than the screen, placed at x = -1 and mirrored, has been
\* drawn over the whole of row 20 and nowhere else
C17_Witness ==
    /\ ticks = 3 /\ err = "" /\ pc < TRAP_BASE
    /\ regs.x = 10 /\ ArgX = 255 /\ ArgY = 20 /\ ArgId = 2 /\ ArgFlip = 1
    /\ Rd(screen, 20 * SCREEN_W) = 9
    /\ Rd(screen, 20 * SCREEN_W + SCREEN_W - 1) = 9
    /\ Rd(screen, 21 * SCREEN_W) = 0

\* the arguments of clear_screen as the firmware stored them
ClearStart == Rd(mem, ARG_BASE)
ClearLast == Rd(mem, ARG_BASE + 1)
ClearColor == Rd(mem, ARG_BASE + 2)

\* min(end + 1, screen_h)
ClearStop == IF ClearLast + 1 < screen_h THEN ClearLast + 1 ELSE screen_h

\* C18: the clear trap (X = 0x0C) with arguments start, end, color sets every
\* framebuffer byte of the scanlines [start, min(end + 1, screen_h)) to color
\* and leaves every other framebuffer byte unchanged; when start >=
\* min(end + 1, screen_h) the framebuffer is unchanged.  With start = 0 and
\* end = 127 on a screen of 128 lines every byte is color afterwards.
C18_ClearFillsScanlines ==
    [][ServiceStep(12)
       => /\ err' = ""
          /\ \A k \in 0 .. (SCREEN_W * screen_h - 1) :
                Rd(screen', k) =
                    IF ClearStart <= k \div SCREEN_W /\ k \div SCREEN_W < ClearStop
                    THEN ClearColor ELSE Rd(screen, k)
          /\ DOMAIN screen' \subseteq
                (DOMAIN screen \cup (0 .. (SCREEN_W * screen_h - 1)))
          /\ (ClearStart >= ClearStop => screen' = screen)]_vars

\* the whole screen of 128 lines has been cleared to 0x42 over an image
C18_Witness ==
    /\ ticks = 3 /\ err = "" /\ pc < TRAP_BASE
    /\ screen_h = 128
    /\ regs.x = 12 /\ ClearStart = 0 /\ ClearLast = 127 /\ ClearColor = 66
    /\ \A k \in 0 .. (SCREEN_W * screen_h - 1) : Rd(screen, k) = 66

\* the arguments of check_intersect as the firmware stored them
IsectX1 == Rd(mem, ARG_BASE)
IsectY1 == Rd(mem, ARG_BASE + 1)
IsectId1 == READ16(mem, ARG_BASE + 2)
IsectX2 == Rd(mem, ARG_BASE + 5)
IsectY2 == Rd(mem, ARG_BASE + 6)
IsectId2 == READ16(mem, ARG_BASE + 7)

\* the two rectangles overlap on both axes, coordinates modulo 256
Overlap ==
    /\ \/ (IsectX2 - IsectX1) % 256 < ImgW(IsectId1)
       \/ (IsectX1 - IsectX2) % 256 < ImgW(IsectId2)
    /\ \/ (IsectY2 - IsectY1) % 256 < ImgH(IsectId1)
       \/ (IsectY1 - IsectY2) % 256 < ImgH(IsectId2)

\* C19: the intersect trap (X = 0x10) sets A = 1 exactly when the two image
\* rectangles (x1, y1, w1, h1) and (x2, y2, w2, h2), coordinates taken modulo
\* 256, overlap on both axes, and A = 0 otherwise; it modifies neither the
\* framebuffer nor any other register (X, Y, the flags).
C19_IntersectSetsA ==
    [][ServiceStep(16)
       => /\ err' = ""
          /\ regs'.a = (IF Overlap THEN 1 ELSE 0)
          /\ regs' = [regs EXCEPT !.a = regs'.a]
          /\ screen' = screen]_vars

\* a hit across the wrap at 255 on both axes, tested over an image on the
\* screen: image 1 (3 x 2) at (255, 255) and image 2 at (1, 0)
C19_Witness ==
    /\ ticks = 3 /\ err = "" /\ pc < TRAP_BASE /\ regs.x = 16
    /\ screen # <<>>
    /\ IsectX1 = 255 /\ IsectX2 = 1 /\ IsectY1 = 255 /\ IsectY2 = 0
    /\ IsectId1 = 1 /\ IsectId2 = 2 /\ regs.a = 1

\* The image a resource describes, by the format alone.  The RLE codes of a
\* row, expanded: a code byte a # 0 is one pixel a, a code byte 0 is followed
\* by a' and n and is n pixels a'.
RECURSIVE RefExpand(_)
RefExpand(codes) ==
    IF codes = <<>> THEN <<>>
    ELSE IF Head(codes) # 0 THEN <<Head(codes)>> \o RefExpand(Tail(codes))
    ELSE [k \in 1 .. codes[3] |-> codes[2]]
             \o RefExpand(SubSeq(codes, 4, Len(codes)))

\* where row j's chunk starts in the bytes of the image
RECURSIVE RefRowStart(_, _)
RefRowStart(img, j) ==
    IF j = 0 THEN 5
    ELSE LET p == RefRowStart(img, j - 1)
         IN  p + img[p] + 256 * img[p + 1]

\* pixel (i, j) of resource id
RefPixel(id, i, j) ==
    LET img == ResImages[id + 1]
        p == RefRowStart(img, j)
        len == img[p] + 256 * img[p + 1]
    IN  RefExpand(SubSeq(img, p + 2, p + len - 3))[i + 1]

\* the image lies entirely on the screen
FitsOnScreen ==
    /\ ArgX + ImgW(ArgId) <= SCREEN_W
    /\ ArgY + ImgH(ArgId) <= screen_h

\* C20: drawing a well-formed RLE image that fits entirely on the screen at
\* (x, y) with flip 0, blend 0xFF and alpha -1 writes decoded pixel (i, j) to
\* framebuffer index (y + j) * 128 + (x + i) for every 0 <= i < w, 0 <= j < h
\* and leaves all other framebuffer bytes unchanged; each row decodes exactly
\* w pixels, a code byte a # 0 emitting one pixel a and a code byte 0 followed
\* by a', n emitting n pixels a'; n = 0 is a fatal decode error.
C20_DrawPlacesDecodedPixels ==
    [][(ServiceStep(10) /\ ArgFlip = 0 /\ ArgBlend = 255 /\ FitsOnScreen)
       => /\ ArgId \in WellFormedIds
               => /\ err' = ""
                  /\ \A i \in 0 .. (ImgW(ArgId) - 1), j \in 0 .. (ImgH(ArgId) - 1) :
                        /\ ((ArgY + j) * 128 + ArgX + i) \in DOMAIN screen'
                        /\ screen'[(ArgY + j) * 128 + ArgX + i]
                              = RefPixel(ArgId, i, j)
                  /\ DOMAIN screen \subseteq DOMAIN screen'
                  /\ \A k \in Changed :
                        InClipCols(k % SCREEN_W) /\ InClipRows(k \div SCREEN_W)
          /\ ArgId = 4 => err' = "zero RLE count"]_vars

\* image 1, whose second row is a run of two pixels 4 and a pixel 5, has
\* been drawn at (10, 20)
C20_Witness ==
    /\ ticks = 3 /\ err = "" /\ pc < TRAP_BASE
    /\ regs.x = 10 /\ ArgX = 10 /\ ArgY = 20 /\ ArgId = 1 /\ ArgFlip = 0
    /\ ArgBlend = 255
    /\ Rd(screen, 20 * 128 + 10) = 1 /\ Rd(screen, 20 * 128 + 11) = 255
    /\ Rd(screen, 20 * 128 + 12) = 3
    /\ Rd(screen, 21 * 128 + 10) = 4 /\ Rd(screen, 21 * 128 + 11) = 4
    /\ Rd(screen, 21 * 128 + 12) = 5
    /\ Rd(screen, 20 * 128 + 13) = 0 /\ Rd(screen, 22 * 128 + 10) = 0

-----------------------------------------------------------------------------
(* Properties of the start-up *)

\* byte i of the ROM file
FileByte(i) == RomByte(rom, rom_mask, i)

\* the key the file is masked with, rom[0x23] ^ 't'
FileKey == Xor(FileByte(35), 116)

\* the table offset in the unmasked bytes 0..2
FileResOffs ==
    Xor(FileByte(0), FileKey) + 256 * Xor(FileByte(1), FileKey)
        + 65536 * Xor(FileByte(2), FileKey)

\* the bytes at 0x23..0x26, unmasked, spell "tony"
FileMagicOk ==
    /\ Xor(FileByte(35), FileKey) = 116
    /\ Xor(FileByte(36), FileKey) = 111
    /\ Xor(FileByte(37), FileKey) = 110
    /\ Xor(FileByte(38), FileKey) = 121

\* check_rom is about to run on the file
AtCheckRom ==
    \/ gpos = "main" /\ rom_size \in RomSizes
    \/ gpos = "extract" /\ rom_size > 0 /\ rom_size <= 8388608

\* offsets the comparison of the ROM with the file looks at: the bytes held
\* and some of the others
ProbeOffs ==
    DOMAIN rom \cup {0, 1, 2, 35, 36, 37, 38, 4096, 65535, rom_size - 1}

\* C21: check_rom ends in ERR_EXIT when the ROM is shorter than 64 KiB, when
\* the bytes at 0x23..0x26 XORed with rom[0x23] ^ 't' do not spell "tony",
\* or when the table offset in the unmasked bytes 0..2 exceeds rom_size;
\* otherwise it succeeds, rom_key is that key and every ROM byte is the
\* file's byte XORed with it.
C21_CheckRom ==
    [][AtCheckRom =>
         IF rom_size < 65536 \/ ~FileMagicOk \/ FileResOffs > rom_size
         THEN err' # ""
         ELSE /\ err' = ""
              /\ rom_key' = FileKey
              /\ DOMAIN rom' = DOMAIN rom
              /\ \A i \in ProbeOffs :
                    RomByte(rom', rom_mask', i) = Xor(FileByte(i), FileKey)]_vars

\* a ROM masked with 0x5a whose table starts at its end has passed check_rom
C21_Witness ==
    /\ gpos = "load"
    /\ err = ""
    /\ rom_key = 90
    /\ rom_mask = 0
    /\ rom_size = 4194304
    /\ 0 \in DOMAIN rom
    /\ RomAt(rom, 0) + 256 * RomAt(rom, 1) + 65536 * RomAt(rom, 2) = rom_size

\* the length of a save file: CPU RAM, save region and framebuffer
SaveFileLen == 65536 + 65536 + 128 * screen_h

\* C22: loading an existing save file whose length is not 64 KiB + 64 KiB +
\* 128 * screen_h ends in ERR_EXIT; in particular a file that is short in
\* the framebuffer section is refused.
C22_SaveLengthChecked ==
    [][gpos = "load" /\ save_file.named /\ save_file.exists
       /\ save_file.len # SaveFileLen
       => err' # ""]_vars

-----------------------------------------------------------------------------
(* Properties of the host loop *)

\* C23: once bit 16 of keys is set it stays set; the step that sets it
\* inside a CPU run leaves the run going; from the loop's test with bit 16
\* set run_game returns, and nothing leads to the reset path while the bit
\* is set; after the return main writes the save file (when one is named
\* and can be opened) from the CPU RAM, the save region and the screen.
C23_QuitLeaves ==
    [][/\ BitAt(keys, 16) = 1 => BitAt(keys', 16) = 1
       /\ running /\ BitAt(keys, 16) = 0 /\ BitAt(keys', 16) = 1
            => running' /\ gpos' = gpos /\ err' = ""
       /\ gpos = "loop" /\ BitAt(keys, 16) = 1 => gpos' = "done"
       /\ BitAt(keys, 16) = 1 => gpos' # "reset" /\ init_done'
       /\ gpos' = "done" => gpos = "loop" /\ BitAt(keys, 16) = 1
       /\ gpos = "done"
            => /\ gpos' = "exit"
               /\ \/ save_file' = save_file
                  \/ /\ save_file.named
                     /\ save_file'.exists
                     /\ save_file'.mem = mem
                     /\ save_file'.screen = ReadBytes(screen, 128 * screen_h)
                     /\ save_file'.len = 65536 + 65536 + 128 * screen_h]_vars

\* ESC arrived inside a run that then went on reading the buttons, the loop
\* was left and the save file written
C23_Witness ==
    /\ gpos = "exit"
    /\ save_file.exists
    /\ BitAt(keys, 16) = 1
    /\ polls > 16
    /\ updates > 1

\* C24: sys_update is called only while no run_emu call is in progress: a
\* step that presents the framebuffer starts and ends outside a CPU run, and
\* a step inside a run, the read of 0x00 that calls game_event included,
\* leaves the count of presents alone.
C24_PresentOutsideRun ==
    [][/\ updates' # updates => ~running /\ ~running' /\ updates' = updates + 1
       /\ running => updates' = updates
       /\ running /\ pumps' # pumps => running' /\ updates' = updates]_vars

\* a run in which the read of 0x00 has called game_event, after the loop
\* presented the framebuffer
C24_Witness ==
    /\ running
    /\ gpos = "emu"
    /\ pumps >= 1
    /\ polls >= 16
    /\ updates >= 2

\* C25: inside one run_emu call game_event is called on the 16th, 32nd, ...
\* read of 0x00 and on no other; every read of 0x00 leaves the complement
\* of the low 8 bits of keys, taken after that call, at 0x00 and in A; and
\* the loop calls game_event once at the end of each tick.
C25_EventPump ==
    [][/\ running' => pumps' * 16 + input_timer' = polls' /\ input_timer' < 16
       /\ running /\ pumps' # pumps
            => pumps' = pumps + 1 /\ polls' = polls + 1 /\ polls' % 16 = 0
       /\ running /\ polls' # polls
            => /\ polls' = polls + 1
               /\ Rd(mem', 0) = 255 - (keys' % 256)
               /\ regs'.a = 255 - (keys' % 256)
               /\ polls' % 16 # 0 => keys' = keys
       /\ gpos = "emu" /\ gpos' = "loop" => pumps' = pumps + 1]_vars

\* the 17th read of 0x00 in a run returns the button that the 16th read's
\* call of game_event saw pressed
C25_Witness ==
    /\ running
    /\ gpos = "emu"
    /\ polls = 17
    /\ pumps = 1
    /\ input_timer = 1
    /\ keys % 256 # 0
    /\ regs.a = 255 - (keys % 256)

-----------------------------------------------------------------------------
(* Properties of the trap dispatch *)

\* a loop iteration of run_emu starts with pc at 0x6000 or above
AtDispatch == running /\ err = "" /\ pc >= 24576 /\ ticks < MaxTicks

\* C26: with pc at 0x6000 the service is selected by register X: an X that
\* is one of 0x06..0x10 even, 0x14..0x1e even, 0x24, 0x26, 0x2c runs its
\* service (0x1c and 0x1e do nothing, 0x0c clears the scanlines of its
\* arguments) and returns through the RTS at 0x7001, every other X ends in
\* "unknown syscall"; a pc from 0x6000 up that is none of 0x6000, 0x6003,
\* 0x6052, 0x60de, 0x7000 ends in "unexpected pc", whatever its low byte.
C26_TrapDispatch ==
    [][AtDispatch =>
         /\ pc = 24576 /\ regs.x \notin BiosIds => err' = "unknown syscall"
         /\ pc = 24576 /\ regs.x \in BiosIds
              => /\ err' \notin {"unknown syscall", "unexpected pc"}
                 /\ err' = "" => Rd(mem', 28673) = 96 /\ sp' = (sp + 2) % 256
         /\ pc = 24576 /\ regs.x \in {28, 30}
              => err' = "" /\ screen' = screen /\ regs' = regs
         /\ pc = 24576 /\ regs.x = 12 /\ Rd(mem, 256) = 0 /\ Rd(mem, 257) = 1
              => /\ err' = ""
                 /\ \A i \in 0 .. 255 : Rd(screen', i) = Rd(mem, 258)
                 /\ \A i \in 256 .. 300 : Rd(screen', i) = Rd(screen, i)
         /\ pc \notin {24576, 24579, 24658, 24798, 28672}
              => err' = "unexpected pc" /\ screen' = screen
         /\ pc \in {24579, 24658, 24798, 28672}
              => err' \notin {"unknown syscall", "unexpected pc"}]_vars

\* the clear service has run from pc = 0x6000 with X = 0x0c and returned
C26_Witness ==
    /\ running
    /\ err = ""
    /\ ticks = 2
    /\ regs.x = 12
    /\ Rd(mem, 28673) = 96
    /\ Rd(mem, 256) = 0
    /\ Rd(mem, 257) = 1
    /\ \A i \in 0 .. 255 : Rd(screen, i) = 2

\* the original statement of C26: the service is selected by the low byte
\* of pc, so a pc in [0x6000, 0x7000) whose low byte is a listed identifier
\* does not end in an error of the dispatch, and one whose low byte is not
\* listed, 0x6000 included, is fatal unless it is a known entry.
C26_LowByteDispatch ==
    [][AtDispatch /\ pc < 28672 /\ pc \notin {24579, 24658, 24798} =>
         IF (pc % 256) \in BiosIds
         THEN err' \notin {"unknown syscall", "unexpected pc"}
         ELSE err' # ""]_vars

-----------------------------------------------------------------------------
(* Properties of the flash argument bits *)

\* a store to register 0x02 without bit 3 while the flash driver collects
\* argument bits (a store to 0x12 changes that register or leads to READY)
ArgStore ==
    /\ running /\ err = ""
    /\ flash.state \in {2, 3}
    /\ flash.narg > 0
    /\ Rd(mem', 18) = Rd(mem, 18)
    /\ flash'.state # 1
    /\ BitAt(Rd(mem', 2), 3) = 0

\* the stored byte without its bit 2
ArgPhase == Rd(mem', 2) - 4 * BitAt(Rd(mem', 2), 2)

\* C27: in the states CMD and CMD2 with narg > 0 a store d to register 0x02
\* is fatal unless (d & ~4) ^ (narg & 1) = 2; with an even narg bit 2 of d
\* is shifted from the right into args[(narg - 1) >> 4], the counter being
\* taken after its decrement, so that the first bit received ends up as the
\* byte's bit 7; with an odd narg bit 2 of d is compared with the bit
\* shifted last and a mismatch is fatal; narg goes down by one and the
\* index stays within 0..2.
C27_ArgBits ==
    [][ArgStore =>
         /\ flash.narg <= 48
         /\ (flash.narg - 1) \div 16 \in 0 .. 2
         /\ DOMAIN flash'.args = 0 .. 2
         /\ IF Xor(ArgPhase, flash.narg % 2) # 2
            THEN err' = "unexpected flash data"
            ELSE IF flash.narg % 2 = 0
            THEN /\ err' = ""
                 /\ flash' =
                      [flash EXCEPT
                         !.narg = @ - 1,
                         !.args[(flash.narg - 1) \div 16] =
                             (2 * @ + BitAt(Rd(mem', 2), 2)) % 256]
            ELSE IF BitAt(Rd(mem', 2), 2)
                      # flash.args[(flash.narg - 1) \div 16] % 2
            THEN err' = "wrong bit repeated"
            ELSE /\ err' \notin {"unexpected flash data", "wrong bit repeated"}
                 /\ flash'.args = flash.args
                 /\ flash.narg > 1 => flash' = [flash EXCEPT !.narg = @ - 1]]_vars

\* the sixteen stores of the first address byte of a command on the save
\* region have left 0x3f or 0x7f in args[2]
C27_Witness ==
    /\ err = ""
    /\ flash.state = 3
    /\ flash.narg = 32
    /\ flash.args[2] \in {63, 127}

\* the original statement of C27: the bit is shifted into args[narg >> 4]
\* with narg the counter before the store, an index within 0..2.
C27_ArgIndexBefore ==
    [][ArgStore /\ flash.narg % 2 = 0 /\ Xor(ArgPhase, 0) = 2 =>
         /\ flash.narg \div 16 \in 0 .. 2
         /\ flash'.args[flash.narg \div 16] =
               (2 * flash.args[flash.narg \div 16]
                  + BitAt(Rd(mem', 2), 2)) % 256]_vars

\* the store that completes the command byte: the last bit is repeated
\* correctly in the CMD stage
CmdDone ==
    /\ ArgStore
    /\ flash.state = 2
    /\ flash.narg = 1
    /\ ArgPhase = 3
    /\ BitAt(Rd(mem', 2), 2) = flash.args[0] % 2

\* C28: the completed command byte 0x06 sets bit 1 of flash.flags, 0x04
\* clears it and 0x50 leaves flash.flags as it was, and all three move the
\* flash state to OFF; 0x05 and 0x01 go on to CMD2 with 16 half-bits, 0x02
\* and 0x20 with 48; every other command byte is fatal.
C28_CommandByte ==
    [][CmdDone =>
         /\ flash.args[0] \in {6, 4, 80}
              => /\ err' = ""
                 /\ flash'.state = 0
                 /\ flash'.cmd = flash.args[0]
                 /\ \A b \in {0, 2, 3, 4, 5, 6, 7} :
                       BitAt(flash'.flags, b) = BitAt(flash.flags, b)
         /\ flash.args[0] = 6 => BitAt(flash'.flags, 1) = 1
         /\ flash.args[0] = 4 => BitAt(flash'.flags, 1) = 0
         /\ flash.args[0] = 80 => flash'.flags = flash.flags
         /\ flash.args[0] \in {5, 1}
              => err' = "" /\ flash'.state = 3 /\ flash'.narg = 16
         /\ flash.args[0] \in {2, 32}
              => err' = "" /\ flash'.state = 3 /\ flash'.narg = 48
         /\ flash.args[0] \notin {80, 6, 4, 5, 1, 2, 32}
              => err' = "unknown flash cmd"]_vars

\* command 0x50 is complete and the write-enable bit is still clear
C28_Witness ==
    /\ err = ""
    /\ flash.state = 0
    /\ flash.cmd = 80
    /\ flash.narg = 0
    /\ flash.args[0] = 80
    /\ BitAt(flash.flags, 1) = 0

\* the original statement of C28: command 0x50 sets the write-enable bit
\* as 0x06 does.
C28_VolatileSetsEnable ==
    [][CmdDone /\ flash.args[0] \in {6, 80}
         => flash'.state = 0 /\ BitAt(flash'.flags, 1) = 1]_vars

-----------------------------------------------------------------------------
(* Properties of the decimal mode *)

\* the instruction at 0x300 is op with D = 1, and this step executes it
DecimalStep(op) ==
    /\ pc = 768
    /\ Rd(mem, 768) = op
    /\ BitAt(regs.flags, 3) = 1
    /\ pc' = 770

\* the sum of the high nibbles, the carry of the corrected low nibble lo1
\* and its low four bits
HighSum(A, M, lo1) ==
    (A - (A % 16)) + (M - (M % 16)) + (IF lo1 >= 16 THEN 16 ELSE 0)
        + (lo1 % 16)

\* the low-nibble sum of A and M with the carry C
LowSum(A, M, C) == (A % 16) + (M % 16) + C

\* the low-nibble correction of ADC and the one of SBC
LowAdc(lo) == IF lo >= 10 THEN lo + 6 ELSE lo
LowSbc(lo) == IF lo < 16 THEN lo - 6 ELSE lo

\* the accumulator C29 states for SBC after the high-nibble sum hi
SbcResult(hi) == (IF hi < 256 THEN hi - 96 ELSE hi) % 256

\* C29: with D = 1 SBC adds M' = M ^ 0xff to A nibble by nibble as ADC
\* does, except that its low-nibble correction subtracts 6 when the
\* low-nibble sum is below 16 (ADC adds 6 from 10 on); cflag is the
\* high-nibble sum, and 0x60 is subtracted from the result when that sum is
\* below 0x100.
C29_DecimalSbc ==
    [][DecimalStep(233) =>
         LET Result(hi) ==
                 /\ regs'.a = SbcResult(hi)
                 /\ regs'.cflag = hi
                 /\ regs'.zflag = regs'.a
                 /\ regs'.nflag = regs'.a
             Path(A, M, C) == Result(HighSum(A, M, LowSbc(LowSum(A, M, C))))
         IN  Path(regs.a, 255 - Rd(mem, 769), regs.cflag \div 256)]_vars

\* 0x00 - 0x00 with borrow in decimal mode has given 0x99 with the carry
\* clear
C29_Witness ==
    /\ pc = 770
    /\ Rd(mem, 768) = 233
    /\ Rd(mem, 769) = 0
    /\ BitAt(regs.flags, 3) = 1
    /\ regs.a = 153
    /\ regs.cflag = 249

\* the original statement of C29: SBC corrects the low nibble as ADC does
\* (6 added from 10 on) and differs only by the 0x60 subtracted below 0x100.
C29_SbcSharesLowCorrection ==
    [][DecimalStep(233) =>
         LET Path(A, M, C) ==
                 regs'.a = SbcResult(HighSum(A, M, LowAdc(LowSum(A, M, C))))
         IN  Path(regs.a, 255 - Rd(mem, 769), regs.cflag \div 256)]_vars

\* C30: in a decimal ADC cflag is the high-nibble sum after the 0x60
\* fix-up, so that the carry (cflag >= 0x100) is set exactly when the sum
\* before the fix-up is 0xa0 or more; V is bit 7 of
\* (sum ^ A) & ~(A ^ M) on the sum before the fix-up.
C30_DecimalAdcFlags ==
    [][DecimalStep(105) =>
         LET Result(A, M, hi) ==
                 /\ regs'.cflag = (IF hi >= 160 THEN hi + 96 ELSE hi)
                 /\ regs'.cflag >= 256 <=> hi >= 160
                 /\ regs'.a = regs'.cflag % 256
                 /\ BitAt(regs'.vflag, 7) = 1
                      <=> /\ BitAt(hi, 7) # BitAt(A, 7)
                          /\ BitAt(A, 7) = BitAt(M, 7)
             Path(A, M, C) == Result(A, M, HighSum(A, M, LowAdc(LowSum(A, M, C))))
         IN  Path(regs.a, Rd(mem, 769), regs.cflag \div 256)]_vars

\* 0x50 + 0x50 in decimal mode has given 0x00 with the carry and V set
C30_Witness ==
    /\ pc = 770
    /\ Rd(mem, 768) = 105
    /\ Rd(mem, 769) = 80
    /\ BitAt(regs.flags, 3) = 1
    /\ regs.a = 0
    /\ regs.cflag = 256
    /\ BitAt(regs.vflag, 7) = 1

\* the original statement of C30: the carry of a decimal ADC is set exactly
\* when the sum before the 0x60 fix-up is 0x100 or more.
C30_CarryBeforeFixup ==
    [][DecimalStep(105) =>
         LET Path(A, M, C) ==
                 regs'.cflag >= 256
                     <=> HighSum(A, M, LowAdc(LowSum(A, M, C))) >= 256
         IN  Path(regs.a, Rd(mem, 769), regs.cflag \div 256)]_vars

-----------------------------------------------------------------------------
(* Properties of the P register *)

\* the P register as the firmware sees it: N and V are the sign bits of
\* nflag and vflag, Z is set when zflag is zero, C is the carry held in
\* cflag, and B, D, I and the unused bits 2..5 are kept in s->flags
FlagsP(r) ==
    128 * BitAt(r.nflag, 7) + 64 * BitAt(r.vflag, 7)
      + 32 * BitAt(r.flags, 5) + 16 * BitAt(r.flags, 4)
      + 8 * BitAt(r.flags, 3) + 4 * BitAt(r.flags, 2)
      + (IF r.zflag = 0 THEN 2 ELSE 0) + (IF r.cflag >= 256 THEN 1 ELSE 0)

\* a step that executes the opcode op and goes on to the next instruction
StackStep(op) == FetchIs(op) /\ pc' = (pc + 1) % 65536 /\ err' = ""

\* C31: at run_emu's entry, packing the unpacked flags of any byte P that
\* s->flags may hold gives P back; PHP pushes the P register and leaves it alone, PLP makes the pulled
\* byte the P register, a return from run_emu stores the P register in
\* s->flags, nothing touches it between two runs, and the next entry takes
\* exactly that byte as the P register again.
C31_FlagsRoundTrip ==
    [][/\ StackStep(OP_PHP)
            => /\ Rd(mem', STACK_PAGE + sp) = FlagsP(regs)
               /\ FlagsP(regs') = FlagsP(regs)
       /\ StackStep(OP_PLP)
            => /\ FlagsP(regs') = Rd(mem, STACK_PAGE + ((sp + 1) % 256))
               /\ regs'.flags = FlagsP(regs')
       /\ running /\ ~running' /\ err' = ""
            => regs'.flags = FlagsP(regs) /\ FlagsP(regs') = FlagsP(regs)
       /\ ~running /\ ~running' => regs' = regs
       /\ ~running /\ running' /\ err' = ""
            => /\ FlagsP(regs') = regs.flags /\ regs'.flags = regs.flags
               /\ \A P \in Byte :
                     PACK_FLAGS(UNPACK_FLAGS([regs EXCEPT !.flags = P], P)) = P]_vars

\* PHP, WAI and PLP have run with a tick of the game loop before the PLP,
\* and the P register holds all of N, V, B, D, I, Z and C
C31_Witness ==
    /\ running /\ err = ""
    /\ Rd(mem, FRAME_BASE) = OP_PHP
    /\ Rd(mem, FRAME_BASE + 1) = OP_WAI
    /\ Rd(mem, FRAME_BASE + 2) = OP_PLP
    /\ pc = FRAME_BASE + 3
    /\ FlagsP(regs) = 255

-----------------------------------------------------------------------------
(* Properties of the stack page *)

\* the address in the stack page that SP + k selects
StackAt(k) == STACK_PAGE + ((sp + k) % 256)

\* the memory cells whose value the step changes
Stored ==
    {a \in (DOMAIN mem) \cup (DOMAIN mem') : Rd(mem', a) # Rd(mem, a)}

\* the cells below the window that the step may change besides the stack
StackOnly(cells) ==
    \A a \in Stored : a < FRAME_BASE => a \in cells

\* a ROM call at 0x60de that the trap carries out
RomCallStep == AtTrap(ROM_CALL) /\ err' = "" /\ pc' = FRAME_BASE

\* C32: the stack instructions and the ROM-call trap access the stack page
\* only, at addresses 0x100 + ((SP + k) mod 256): a push stores at SP and
\* decrements SP, a pull increments SP and reads there, JSR and the ROM call
\* store the high byte at SP and the low byte at SP - 1, RTS reads SP + 1 and
\* SP + 2, RTI reads SP + 1 .. SP + 3, and SP moves modulo 256.
C32_StackPage ==
    [][/\ StackAt(0) \in 256 .. 511 /\ StackAt(1) \in 256 .. 511
       /\ StackAt(2) \in 256 .. 511 /\ StackAt(3) \in 256 .. 511
       /\ StackAt(-1) \in 256 .. 511
       /\ StackStep(OP_PHP)
            => /\ Stored \subseteq {StackAt(0)}
               /\ Rd(mem', StackAt(0)) = FlagsP(regs)
               /\ sp' = (sp - 1) % 256
       /\ \A op \in DOMAIN PushOps : StackStep(op)
            => /\ Stored \subseteq {StackAt(0)}
               /\ Rd(mem', StackAt(0)) = regs[PushOps[op]]
               /\ sp' = (sp - 1) % 256
       /\ StackStep(OP_PLP)
            => /\ mem' = mem
               /\ regs'.flags = Rd(mem, StackAt(1))
               /\ sp' = (sp + 1) % 256
       /\ \A op \in DOMAIN PullOps : StackStep(op)
            => /\ mem' = mem
               /\ regs'[PullOps[op]] = Rd(mem, StackAt(1))
               /\ sp' = (sp + 1) % 256
       /\ FetchIs(OP_JSR)
            => /\ Stored \subseteq {StackAt(0), StackAt(-1)}
               /\ Rd(mem', StackAt(0)) = ((pc + 2) % 65536) \div 256
               /\ Rd(mem', StackAt(-1)) = (pc + 2) % 256
               /\ sp' = (sp - 2) % 256
       /\ FetchIs(OP_RTS)
            => /\ mem' = mem
               /\ pc' = (Rd(mem, StackAt(1)) + 256 * Rd(mem, StackAt(2)) + 1)
                          % 65536
               /\ sp' = (sp + 2) % 256
       /\ FetchIs(OP_RTI)
            => /\ mem' = mem
               /\ regs'.flags = Rd(mem, StackAt(1))
               /\ pc' = Rd(mem, StackAt(2)) + 256 * Rd(mem, StackAt(3))
               /\ sp' = (sp + 3) % 256
       /\ RomCallStep
            => /\ StackOnly({StackAt(0), StackAt(-1)})
               /\ Rd(mem', StackAt(0)) = (SYS_RET - 1) \div 256
               /\ Rd(mem', StackAt(-1)) = (SYS_RET - 1) % 256
               /\ sp' = (sp - 2) % 256]_vars

\* JSR has run with SP = 0: the return address 0x0302 is at 0x100 and 0x1ff
C32_Witness ==
    /\ running /\ err = ""
    /\ Rd(mem, FRAME_BASE) = OP_JSR
    /\ pc = FRAME_BASE + 4
    /\ sp = 254
    /\ Rd(mem, 256) = 3
    /\ Rd(mem, 511) = 2

-----------------------------------------------------------------------------
(* Properties of WAI *)

\* the step of run_game that enters run_emu for a tick
TickEntry == gpos = "loop" /\ ~running /\ running' /\ err' = ""

\* C33: WAI ends run_emu with bit 19 of keys set and s->pc behind the WAI,
\* and touches neither SP, the frame depth nor memory; the rest of the tick
\* leaves them and bit 19 alone; the next tick's entry clears bit 19 and
\* keeps PC, SP, the frame depth and the bytes 0x80..0x84, so that the run
\* goes on behind the WAI; a tick that starts with bit 19 clear enters
\* run_emu with frame depth 0, SP = 0x7f and PC = 0x60de.
C33_WaitResume ==
    [][/\ FetchIs(OP_WAI)
            => /\ ~running' /\ err' = ""
               /\ KeyOn(keys', WAI_BIT)
               /\ pc' = (pc + 1) % 65536
               /\ sp' = sp /\ depth' = depth /\ frames' = frames
               /\ mem' = mem
       /\ ~running /\ ~running'
            => /\ KeyOn(keys', WAI_BIT) = KeyOn(keys, WAI_BIT)
               /\ pc' = pc /\ sp' = sp /\ depth' = depth /\ frames' = frames
               /\ \A a \in ARG_ADDR .. ARG_SIZE + 1 : Rd(mem', a) = Rd(mem, a)
       /\ TickEntry /\ KeyOn(keys, WAI_BIT)
            => /\ ~KeyOn(keys', WAI_BIT)
               /\ pc' = pc /\ sp' = sp /\ depth' = depth /\ frames' = frames
               /\ regs'.a = regs.a /\ regs'.x = regs.x /\ regs'.y = regs.y
               /\ \A a \in ARG_ADDR .. ARG_SIZE + 1 : Rd(mem', a) = Rd(mem, a)
       /\ TickEntry /\ ~KeyOn(keys, WAI_BIT)
            => /\ depth' = 0
               /\ sp' = BOOT_SP
               /\ pc' = ROM_CALL
               /\ ~KeyOn(keys', WAI_BIT)]_vars

\* WAI at 0x300 has ended a run, the next tick has resumed it, and the PHA
\* behind the WAI has been executed
C33_Witness ==
    /\ running /\ err = ""
    /\ Rd(mem, FRAME_BASE) = OP_WAI
    /\ Rd(mem, FRAME_BASE + 1) = 72
    /\ pc = FRAME_BASE + 2
    /\ sp = 254
    /\ Rd(mem, 511) = regs.a
    /\ ~KeyOn(keys, WAI_BIT)

-----------------------------------------------------------------------------
(* Properties of the dispatched frame *)

\* the step of run_game that enters run_emu for the boot frame
BootEntry == gpos = "reset" /\ ~init_done /\ running' /\ err' = ""

\* the bytes 0x80..0x84 after the step are the two 16-bit words of the ROM
\* header at hdr, the first extended by a zero byte
ArgsFromHeader(hdr) ==
    /\ Rd(mem', ARG_ADDR) = RomAt(rom, hdr)
    /\ Rd(mem', ARG_ADDR + 1) = RomAt(rom, hdr + 1)
    /\ Rd(mem', ARG_ADDR + 2) = 0
    /\ Rd(mem', ARG_SIZE) = RomAt(rom, hdr + 2)
    /\ Rd(mem', ARG_SIZE + 1) = RomAt(rom, hdr + 3)

\* C34 (amended): on a tick that dispatches the firmware the bytes written
\* to 0x80 and 0x81 are the 16-bit little-endian word at ROM+0x1b, the byte
\* written to 0x82 is 0, and the bytes written to 0x83 and 0x84 are the
\* 16-bit word at ROM+0x1d; the boot dispatch does the same from ROM+3 and
\* ROM+5.
C34_DispatchArgs ==
    [][/\ TickEntry /\ ~KeyOn(keys, WAI_BIT) => ArgsFromHeader(GAME_HDR)
       /\ BootEntry => ArgsFromHeader(BOOT_HDR)]_vars

\* a tick has dispatched the game frame of the image, address 0x0400 and
\* size word 8, and the boot frame's arguments are gone
C34_Witness ==
    /\ running /\ err = ""
    /\ gpos = "emu"
    /\ pc = ROM_CALL
    /\ READ24(mem, ARG_ADDR) = 1024
    /\ READ16(mem, ARG_SIZE) = 8
    /\ RomAt(rom, GAME_HDR + 2) = 8

\* the original statement of C34: the three bytes at 0x80..0x82 are the
\* 24-bit little-endian value at ROM+0x1b (ROM+3 for the boot frame).
C34_Address24 ==
    [][/\ TickEntry /\ ~KeyOn(keys, WAI_BIT)
            => /\ Rd(mem', ARG_ADDR) = RomAt(rom, GAME_HDR)
               /\ Rd(mem', ARG_ADDR + 1) = RomAt(rom, GAME_HDR + 1)
               /\ Rd(mem', ARG_ADDR + 2) = RomAt(rom, GAME_HDR + 2)
       /\ BootEntry
            => /\ Rd(mem', ARG_ADDR) = RomAt(rom, BOOT_HDR)
               /\ Rd(mem', ARG_ADDR + 1) = RomAt(rom, BOOT_HDR + 1)
               /\ Rd(mem', ARG_ADDR + 2) = RomAt(rom, BOOT_HDR + 2)]_vars

-----------------------------------------------------------------------------
(* Properties of the loop's end *)

\* the steps of run_game at the loop's condition: one more tick, or the end
LoopTick == gpos = "loop" /\ gpos' = "emu"
LoopEnd == gpos = "loop" /\ gpos' \in {"reset", "done"}

\* C35: the game loop runs until bit 16 or bit 18 of keys is set: a tick
\* starts only with both clear and the loop ends only with one of them set;
\* when it ends with bit 16 clear, the CPU state is zeroed, init_done is
\* cleared, keys keeps its bits 0..7 only and run_game restarts at "reset";
\* when bit 16 is set run_game returns and nothing is reset.
C35_LoopEndsOn16Or18 ==
    [][/\ LoopTick
            => ~KeyOn(keys, QUIT_BIT) /\ ~KeyOn(keys, POWEROFF_BIT)
       /\ LoopEnd
            => KeyOn(keys, QUIT_BIT) \/ KeyOn(keys, POWEROFF_BIT)
       /\ LoopEnd /\ ~KeyOn(keys, QUIT_BIT)
            => /\ gpos' = "reset"
               /\ mem' = <<>> /\ pc' = 0 /\ sp' = 0
               /\ regs'.a = 0 /\ regs'.x = 0 /\ regs'.y = 0
               /\ regs'.flags = 0
               /\ ~init_done'
               /\ keys' = keys % 256
       /\ LoopEnd /\ KeyOn(keys, QUIT_BIT)
            => /\ gpos' = "done"
               /\ UNCHANGED <<mem, pc, sp, regs, keys, init_done>>]_vars

-----------------------------------------------------------------------------
(* Properties of the carry variable *)

\* C36: in every reachable state cflag is below 0x200, so that cflag >> 8 is
\* 0 or 1, PACK_FLAGS takes only bit 0 of P from it and the Z bit of P is
\* set exactly when zflag is zero; this includes the state after a decimal
\* ADC of non-BCD bytes such as A = 0xf0, M = 0xf0.
C36_CarryBelow0x200 ==
    /\ regs.cflag < 512
    /\ regs.cflag \div 256 \in {0, 1}
    /\ BitAt(PACK_FLAGS(regs), 1) = (IF regs.zflag = 0 THEN 1 ELSE 0)
    /\ BitAt(PACK_FLAGS(regs), 0) = (IF regs.cflag >= 256 THEN 1 ELSE 0)

-----------------------------------------------------------------------------
(* Properties of the return from a trap *)

\* the address on top of the stack
StackTop == Rd(mem, StackAt(1)) + 256 * Rd(mem, StackAt(2))

\* the cells a service stores its results in: the picture's width and
\* height, the copy of its identifier, and the six bytes of a ROM read
ServiceResults == {133, 134, 258, 259} \cup 141 .. 146

\* the window of the frame that a return at depth d makes current
RestoredWindow ==
    FRAME_BASE .. (FRAME_BASE + frames[depth - 2].size - 1)

\* the trap has been left through the RTS at 0x7001
ThroughRts ==
    /\ running' /\ err' = ""
    /\ Rd(mem', SYS_RET1) = 96
    /\ sp' = (sp + 2) % 256
    /\ pc' = (StackTop + 1) % 65536

-----------------------------------------------------------------------------
(* Properties of the frame stack's entries *)

\* entry i of the frame stack is one the ROM call accepts
FrameValid(fr) ==
    /\ fr.size % 2 = 0
    /\ fr.size < FRAME_SIZE_LIMIT
    /\ fr.addr + fr.size <= rom_size

\* a step of one of the paging traps that has copied a window
PagingStep ==
    /\ AtTrap(ROM_CALL) \/ AtTrap(ROM_TAIL_CALL) \/ AtTrap(SYS_RET)
    /\ err' = "" /\ running'

\* C38: every entry of the frame stack below depth has an even size below
\* 0x500 and addr + size <= rom_size; a paging trap reads the window from
\* ROM offsets below rom_size only and changes, besides the two bytes of the
\* pushed return address and the RTS opcode at 0x7001, only bytes of
\* 0x300..0x7fd, within the size of the frame made current: the rest of the
\* stack page, the argument block and the trap addresses are left alone.
C38_FramesValid ==
    /\ [](\A i \in 0 .. (depth - 1) : FrameValid(frames[i]))
    /\ [][PagingStep =>
            /\ depth' >= 1
            /\ FrameValid(frames'[depth' - 1])
            /\ frames'[depth' - 1].addr + frames'[depth' - 1].size - 1
                 < rom_size
            /\ WindowMatches(mem', frames'[depth' - 1])
            /\ \A a \in Stored \ {StackAt(0), StackAt(-1), SYS_RET1} :
                  /\ a \in FRAME_BASE .. 2045
                  /\ a < FRAME_BASE + frames'[depth' - 1].size
            /\ \A a \in ARG_ADDR .. ARG_SIZE + 1 : Rd(mem', a) = Rd(mem, a)
            /\ \A a \in Stored : a >= TRAP_BASE => a = SYS_RET1
            /\ AtTrap(ROM_TAIL_CALL) \/ AtTrap(SYS_RET)
                 => \A a \in Stored : a \notin STACK_PAGE .. STACK_PAGE + 255]_vars

\* the largest frame, 0x4fe bytes ending with the last byte of the ROM, is
\* current and its last byte is at 0x7fd
C38_Witness ==
    /\ running /\ err = ""
    /\ pc = FRAME_BASE
    /\ depth >= 1
    /\ frames[depth - 1].size = 1278
    /\ frames[depth - 1].addr + 1278 = rom_size
    /\ Rd(mem, 2045) = RomAt(rom, rom_size - 1)
    /\ Rd(mem, 2046) = 0

-----------------------------------------------------------------------------
(* Properties of a command broken off *)

\* the step breaks a message off: the flash leaves CMD or CMD2 with
\* half-bits of the message still to come
BreakOffStep ==
    /\ running /\ err = ""
    /\ flash.state \in {FLASH_CMD, FLASH_CMD2}
    /\ flash.narg > 0
    /\ flash'.state \in {FLASH_OFF, FLASH_READY}
    /\ flash'.narg = flash.narg

\* the step starts a command from READY
RestartStep ==
    /\ running /\ err = ""
    /\ flash.state = FLASH_READY
    /\ flash'.state = FLASH_CMD

\* the flash after the n stores to 0x02 that send the low (n + 1) \div 2
\* bits of the byte T, each bit once and then repeated
RECURSIVE SendBits(_, _, _)
SendBits(x, T, n) ==
    IF n = 0 \/ x.err # "" THEN x
    ELSE LET bit == BitAt(T, (n - 1) \div 2)
             d == (IF n % 2 = 0 THEN 2 ELSE 3) + 4 * bit
         IN  SendBits(FlashShift(x.flash, x.rom, d), T, n - 1)

\* C39: a step that breaks a message off before its last half-bit changes
\* neither the ROM nor flash.flags nor the command executed last, whether it
\* is a store to 0x02 with bit 3 set (to OFF) or a store to 0x12 (to OFF or
\* READY); the command started from READY next has narg = 16, and whatever
\* args holds at that moment, the eight bits of a byte T sent then make T
\* the command byte.
C39_BrokenOffCommand ==
    [][/\ BreakOffStep
            => /\ rom' = rom
               /\ flash'.flags = flash.flags
               /\ flash'.cmd = flash.cmd
               /\ flash'.args = flash.args
               /\ err' = ""
       /\ RestartStep
            => /\ flash'.narg = 16
               /\ rom' = rom
               /\ flash'.flags = flash.flags
               /\ flash'.cmd = flash.cmd
               /\ \A T \in CmdTargets :
                     LET x == SendBits([flash |-> flash', rom |-> rom,
                                        err |-> ""], T, 16)
                     IN  /\ x.flash.cmd = T
                         /\ T # 3 => x.err = ""
                         /\ x.rom = rom]_vars

\* a sector erase was broken off after the first byte of its address, the
\* ROM is as it was, and the Write Enable sent next has been executed
C39_Witness ==
    /\ running /\ err = ""
    /\ flash.state = FLASH_OFF
    /\ flash.cmd = CMD_WRITE_ENABLE
    /\ BitAt(flash.flags, 1) = 1
    /\ flash.narg = 0
    /\ flash.args[2] \in {63, 127}
    /\ flash.args[0] = CMD_WRITE_ENABLE
    /\ rom = <<>>

=============================================================================
